---- MODULE Spec2Model ----
(***************************************************************************)
(* A model of yt-summarize: the transcript-acquisition fallback chain and   *)
(* the subtitle parser (sources/youtube.py), the bounded retry loops around *)
(* the provider calls (summarize/map_reduce.py, transcribe/openai_stt.py), *)
(* the map-reduce summarizer (summarize/map_reduce.py), the cache          *)
(* (cache.py) and the summarize command (cli.py).                          *)
(*                                                                         *)
(* The specifications share the variables; each leaves the variables of    *)
(* the other components at their initial values:                           *)
(*   SpecFetch      one call of fetch_youtube_transcript                   *)
(*   SpecVtt        one call of _parse_vtt                                 *)
(*   SpecRetry      one logical chat request and one logical speech-to-    *)
(*                  text request, each through its retry loop              *)
(*   SpecSummarize  one call of summarize_transcript (SpecSummarizeLive:   *)
(*                  with its steps taken as long as there is one)          *)
(*   SpecCache      the operations of cache.py on one cache directory      *)
(*   SpecWrite      two concurrent writers of one cache file               *)
(*   SpecKey        get_cache_key_youtube on two triples                   *)
(*   SpecText       chunk_transcript and the cost estimate on one text     *)
(*   SpecRun        runs of the summarize command, one after the other    *)
(***************************************************************************)
EXTENDS Naturals, Integers, Sequences, FiniteSets, TLC

VARIABLES
    \* ---- fetch_youtube_transcript (sources/youtube.py) ----
    lang,                  \* requested language, "auto" or a code
    allow_audio_fallback,  \* parameter of fetch_youtube_transcript
    max_minutes,           \* parameter of fetch_youtube_transcript
    ytdlp_installed,       \* environment: is the yt-dlp executable on PATH
    video_duration,        \* environment: the video's real length in seconds
    fpc,                   \* position in fetch_youtube_transcript
    events,                \* what the request has invoked so far, in order
    steps,                 \* the strategies attempted, each with how it ended
    tracks,                \* the track list api.list returned
    chosen,                \* the caption track selected by fetch_transcript_api
    fresult,               \* what fetch_youtube_transcript returned or raised
    \* ---- _parse_vtt (sources/youtube.py) on one subtitle file ----
    v_content,             \* vtt_content, a sequence of lines
    v_lines,               \* the lines emitted, after deduplication
    v_text,                \* the returned text, a sequence of characters
    v_pc,
    \* ---- _call_with_retry (summarize/map_reduce.py): the current request ----
    c_schema,              \* json_schema argument: "none", "map" or "summary"
    c_outcomes,            \* outcome of each provider call of the request
    c_sleeps,              \* the time.sleep durations of the request, in order
    c_status,              \* "idle", "retrying", "returned", "raised", "propagated"
    c_exc,                 \* the exception the request ended with
    \* ---- _transcribe_with_retry (transcribe/openai_stt.py) ----
    t_outcomes,
    t_sleeps,
    t_status,
    t_exc,
    \* ---- summarize_transcript (summarize/map_reduce.py) ----
    api_key_set,           \* environment: OPENAI_API_KEY is set
    sentences,             \* the transcript: token count of each sentence unit
    chunk_tokens,          \* options.chunk_tokens
    formats,               \* options.output_format.split(",")
    use_structured_output, \* parameter of summarize_transcript
    spc,                   \* position in summarize_transcript
    chunks,                \* chunk_transcript's result
    requests,              \* the logical model requests issued, in order
    total_calls,           \* provider calls made by the run
    any_call_failed,       \* some provider call of the run raised
    any_rejected,          \* some response was rejected by parsing or validation
    chunk_summaries,       \* the extracts collected by the map phase
    json_response,         \* the response of the structured reduce request
    md_result,
    json_result,
    sresult,               \* what summarize_transcript returned or raised
    \* ---- the cache directory and the operations of cache.py ----
    files,                 \* the cache directory: file name -> file content
    op,                    \* the last cache operation, with what it returned
    saved,                 \* the save the cache has not been written since
    \* ---- get_cache_key_youtube (cache.py) on two triples ----
    k_a,
    k_b,
    k_keys,                \* the keys derived from k_a and k_b
    \* ---- chunk_transcript and estimate_summarization_cost on one text ----
    x_text,                \* the transcript text, a sequence of characters
    x_chunk_tokens,        \* the chunk budget
    x_chunks,              \* chunk_transcript's result, a sequence of texts
    x_estimate,            \* estimate_summarization_cost's num_chunks
    x_pc,
    \* ---- one run of the summarize command (cli.py) ----
    r_opts,                \* the command line and the environment
    r_pc,                  \* position in summarize
    r_log,                 \* what the run has done so far, in order
    r_transcript,          \* transcript_text
    r_meta,                \* meta: title, lang and method of the transcript
    r_cache_key,           \* cache_key, <<>> for None
    r_summary,             \* md_summary and json_summary
    r_written,             \* the output files written
    r_end,                 \* how the run ended
    r_past,                \* history: the invocations so far and what they cached
    \* ---- two invocations in save_to_cache (cache.py) on the same file ----
    w_data,                \* the JSON text each writer writes
    w_file,                \* the bytes of the cache file
    w_pc,                  \* each writer's position in Path.write_text
    w_pos,                 \* each writer's file offset
    w_finished             \* the writers that returned, in that order

vttVars == <<v_content, v_lines, v_text, v_pc>>
fetchVars == <<lang, allow_audio_fallback, max_minutes, ytdlp_installed,
               video_duration, fpc, events, steps, tracks, chosen, fresult,
               vttVars>>

chatVars == <<c_schema, c_outcomes, c_sleeps, c_status, c_exc>>
sttVars == <<t_outcomes, t_sleeps, t_status, t_exc>>
sumVars == <<api_key_set, sentences, chunk_tokens, formats, use_structured_output,
             spc, chunks, requests, total_calls, any_call_failed, any_rejected,
             chunk_summaries, json_response, md_result, json_result, sresult>>

cacheVars == <<files, op, saved>>
keyVars == <<k_a, k_b, k_keys>>
textVars == <<x_text, x_chunk_tokens, x_chunks, x_estimate, x_pc>>
runVars == <<r_opts, r_pc, r_log, r_transcript, r_meta, r_cache_key, r_summary,
             r_written, r_end, r_past>>
writeVars == <<w_data, w_file, w_pc, w_pos, w_finished>>
cliVars == <<cacheVars, keyVars, textVars, runVars, writeVars>>

vars == <<fetchVars, chatVars, sttVars, sumVars, cliVars>>

(***************************************************************************)
(* Bounds of the model.                                                    *)
(***************************************************************************)
MaxTracks == 2
MaxMinutes == 2
MaxDurationUnits == 3

Languages == {"en", "sv"}
LangOptions == {"auto"} \cup Languages
\* video lengths in seconds, in whole minutes
Durations == {60 * k : k \in 1..MaxDurationUnits}

\* one listed caption track (youtube_transcript_api's Transcript)
Track == [language_code : Languages,
          is_generated : BOOLEAN,
          is_translatable : BOOLEAN,
          translation_languages : SUBSET {"sv"}]
\* the library sets is_translatable from the translation language list
Tracks == {t \in Track : t.is_translatable = (t.translation_languages # {})}
TrackLists == UNION {[1..n -> Tracks] : n \in 0..MaxTracks}

NoChoice == [idx |-> 0, translated |-> FALSE, found_lang |-> "none"]
NoResult == [kind |-> "pending", method |-> "none", exc |-> "none",
             text |-> "none", lang |-> "none", title |-> "none", duration |-> 0]

(***************************************************************************)
(* A component that is not running: its variables at rest.                 *)
(***************************************************************************)
NoCounts == [tldr |-> 0, key_points |-> 0, chapters |-> 0, quotes |-> 0,
             action_items |-> 0, tags |-> 0]
NoSummary == [present |-> FALSE, counts |-> NoCounts]
NoResponse == [shape |-> "none", counts |-> NoCounts]
NoOutcome == [kind |-> "pending", exc |-> "none", stage |-> "none",
              ordinal |-> 0, total |-> 0]

VttIdle ==
    /\ v_content = <<>>
    /\ v_lines = <<>>
    /\ v_text = <<>>
    /\ v_pc = "idle"

FetchIdle ==
    /\ lang = "auto"
    /\ allow_audio_fallback = FALSE
    /\ max_minutes = 0
    /\ ytdlp_installed = FALSE
    /\ video_duration = 0
    /\ fpc = "idle"
    /\ events = <<>>
    /\ steps = <<>>
    /\ tracks = <<>>
    /\ chosen = NoChoice
    /\ fresult = NoResult
    /\ VttIdle

ChatIdle ==
    /\ c_schema = "none"
    /\ c_outcomes = <<>>
    /\ c_sleeps = <<>>
    /\ c_status = "idle"
    /\ c_exc = "none"

SttIdle ==
    /\ t_outcomes = <<>>
    /\ t_sleeps = <<>>
    /\ t_status = "off"
    /\ t_exc = "none"

SumIdle ==
    /\ api_key_set = FALSE
    /\ sentences = <<>>
    /\ chunk_tokens = 0
    /\ formats = {}
    /\ use_structured_output = FALSE
    /\ spc = "idle"
    /\ chunks = <<>>
    /\ requests = <<>>
    /\ total_calls = 0
    /\ any_call_failed = FALSE
    /\ any_rejected = FALSE
    /\ chunk_summaries = <<>>
    /\ json_response = NoResponse
    /\ md_result = "None"
    /\ json_result = NoSummary
    /\ sresult = NoOutcome

NoMembers == [f \in {} |-> "null"]
\* what a load hands back: a record, None, or an exception
Loaded(r) == [kind |-> "record", record |-> r, exc |-> "none"]
LoadedNone == [kind |-> "None", record |-> NoMembers, exc |-> "none"]
LoadRaised(e) == [kind |-> "raised", record |-> NoMembers, exc |-> e]
NoOp == [name |-> "none", key |-> <<>>, fmt |-> <<>>, all |-> FALSE,
         ret |-> LoadedNone, count |-> 0, exit |-> 0, before |-> <<>>]
NoSave == [kind |-> "none", key |-> <<>>, record |-> NoMembers]

CacheIdle ==
    /\ files = <<>>
    /\ op = NoOp
    /\ saved = NoSave

KeyIdle ==
    /\ k_a = <<>>
    /\ k_b = <<>>
    /\ k_keys = <<>>

TextIdle ==
    /\ x_text = <<>>
    /\ x_chunk_tokens = 0
    /\ x_chunks = <<>>
    /\ x_estimate = 0
    /\ x_pc = "idle"

NoOpts == [youtube |-> FALSE, force |-> FALSE, no_audio_fallback |-> FALSE,
           local_only |-> FALSE, fmt |-> <<>>, language |-> <<>>,
           api_key |-> FALSE, model |-> "none"]
\* no invocation before this one; acquired: the <<source is the video,
\* requested language>> of the earlier invocations that acquired a
\* transcript and cached it; stored: the
\* <<key, representation>> an invocation stored; origin: <<key, text>>, the
\* text the summary now under the key was generated from
\* forced: some invocation so far had --force
NoPast == [runs |-> 0, acquired |-> {}, stored |-> {}, origin |-> {},
           forced |-> FALSE]
NoMeta == [title |-> "None", lang |-> <<>>, method |-> <<>>]
NoSummaries == [md |-> "None", json |-> "None"]
Running == [status |-> "running", code |-> 0, error |-> "none"]

RunIdle ==
    /\ r_opts = NoOpts
    /\ r_pc = "idle"
    /\ r_log = <<>>
    /\ r_transcript = "None"
    /\ r_meta = NoMeta
    /\ r_cache_key = <<>>
    /\ r_summary = NoSummaries
    /\ r_written = {}
    /\ r_end = Running
    /\ r_past = NoPast

WriteIdle ==
    /\ w_data = <<>>
    /\ w_file = <<>>
    /\ w_pc = <<>>
    /\ w_pos = <<>>
    /\ w_finished = <<>>

CliIdle == CacheIdle /\ KeyIdle /\ TextIdle /\ RunIdle /\ WriteIdle

(***************************************************************************)
(* sources/youtube.py                                                      *)
(***************************************************************************)

\* the first of the matching indices I, 0 when there is none
\* (a for loop that breaks at the first match)
FirstIdx(I) ==
    IF I = {} THEN 0 ELSE CHOOSE i \in I : \A j \in I : i <= j

\* the indices of the tracks a selection loop accepts
ExactMatches(l, ts) == {i \in 1..Len(ts) : ts[i].language_code = l}
Translatable(l, ts) == {i \in 1..Len(ts) : ts[i].is_translatable
                                           /\ l \in ts[i].translation_languages}
Manual(ts) == {i \in 1..Len(ts) : ~ts[i].is_generated}
Generated(ts) == {i \in 1..Len(ts) : ts[i].is_generated}

\* _check_ytdlp: "ok", or the exception it raises.  A missing executable is
\* FileNotFoundError -> YtDlpNotFound; a failing `yt-dlp --version` is
\* CalledProcessError -> YtDlpNotFound; a timeout is not caught.
\* ("not_found" is the only outcome when the executable is missing)
CheckOutcomes == {"ok", "called_process_error", "timeout"}
_check_ytdlp(installed, o) ==
    IF ~installed THEN "YtDlpNotFound"
    ELSE IF o = "called_process_error" THEN "YtDlpNotFound"
    ELSE IF o = "timeout" THEN "Other"
    ELSE "ok"

\* _fetch_video_metadata: (title, channel, duration), the defaults
\* (video_id, "Unknown", 0.0) when the lookup fails
\* ("not_found": the executable is missing, FileNotFoundError)
MetadataOutcomes == {"ok", "nonzero_exit", "timeout", "bad_json"}
_fetch_video_metadata(installed, o, duration) ==
    IF installed /\ o = "ok"
    THEN [title |-> "title", channel |-> "channel", duration |-> duration]
    ELSE [title |-> "video_id", channel |-> "Unknown", duration |-> 0]

\* the first listed track, whatever it is
SelectTrack_first(l, ts, translate_ok) ==
    IF ts = <<>> THEN NoChoice
    ELSE [idx |-> 1, translated |-> FALSE, found_lang |-> ts[1].language_code]

\* the track selection of fetch_transcript_api, lines 311-355:
\* exact language, else a translation, else manual, else auto-generated
SelectTrack(l, ts, translate_ok) ==
    LET exact == IF l # "auto" THEN FirstIdx(ExactMatches(l, ts)) ELSE 0
        trans == IF l # "auto" /\ exact = 0
                 THEN FirstIdx(Translatable(l, ts)) ELSE 0
        manual == FirstIdx(Manual(ts))
        auto == FirstIdx(Generated(ts))
    IN  IF exact # 0
        THEN [idx |-> exact, translated |-> FALSE, found_lang |-> l]
        ELSE IF trans # 0 /\ translate_ok
        THEN [idx |-> trans, translated |-> TRUE, found_lang |-> l]
        ELSE IF manual # 0
        THEN [idx |-> manual, translated |-> FALSE,
              found_lang |-> ts[manual].language_code]
        ELSE IF auto # 0
        THEN [idx |-> auto, translated |-> FALSE,
              found_lang |-> ts[auto].language_code]
        ELSE NoChoice

\* does the selection call t.translate(lang)
TranslateCalled(l, ts) ==
    /\ l # "auto"
    /\ FirstIdx(ExactMatches(l, ts)) = 0
    /\ FirstIdx(Translatable(l, ts)) # 0

\* fetch_transcript_api: [exc, text, lang, chosen, ev], exc = "none" on return.
\* list_o: outcome of api.list; translate_ok: t.translate succeeds;
\* fetch_o: outcome of transcript.fetch; txt: the joined snippet text
ListOutcomes == {"ok", "disabled", "error"}
FetchOutcomes == {"ok", "error"}
CaptionTexts == {"", "text"}
fetch_transcript_api(l, ts, list_o, translate_ok, fetch_o, txt) ==
    LET sel == SelectTrack(l, ts, translate_ok)
        ev == <<"api.list">>
              \o (IF list_o = "ok" /\ TranslateCalled(l, ts)
                  THEN IF translate_ok THEN <<"translate">>
                       ELSE <<"translate", "translate_raised">>
                  ELSE <<>>)
              \o (IF list_o = "ok" /\ sel.idx # 0
                  THEN <<"transcript.fetch">> ELSE <<>>)
    IN  IF list_o # "ok"
        THEN [exc |-> "TranscriptNotAvailable", text |-> "none", lang |-> "none",
              chosen |-> NoChoice, ev |-> ev]
        ELSE IF sel.idx = 0
        THEN [exc |-> "TranscriptNotAvailable", text |-> "none", lang |-> "none",
              chosen |-> NoChoice, ev |-> ev]
        ELSE IF fetch_o # "ok"
        THEN [exc |-> "Other", text |-> "none", lang |-> "none",
              chosen |-> sel, ev |-> ev]
        ELSE [exc |-> "none", text |-> txt, lang |-> sel.found_lang,
              chosen |-> sel, ev |-> ev]

\* fetch_subtitles_ytdlp: [exc, text, lang, ev].  check_o: outcome of
\* _check_ytdlp; run_o: outcome of the yt-dlp subtitle run and of parsing
SubsOutcomes == {"ok", "nonzero_exit", "no_files", "empty"}
fetch_subtitles_ytdlp(installed, check_o, run_o) ==
    LET chk == _check_ytdlp(installed, check_o)
    IN  IF chk # "ok"
        THEN [exc |-> chk, text |-> "none", lang |-> "none",
              ev |-> <<"check_ytdlp">>]
        ELSE IF run_o # "ok"
        THEN [exc |-> "TranscriptNotAvailable", text |-> "none", lang |-> "none",
              ev |-> <<"check_ytdlp", "subs_download">>]
        ELSE [exc |-> "none", text |-> "text", lang |-> "en",
              ev |-> <<"check_ytdlp", "subs_download">>]

\* the duration test of download_audio, line 250
TooLong(duration, maxmin) == duration > maxmin * 60

\* download_audio: [exc, meta, ev].  meta_o: outcome of the metadata lookup;
\* dl_o: outcome of the yt-dlp audio run
AudioOutcomes == {"ok", "nonzero_exit", "no_file"}
download_audio(installed, check_o, meta_o, duration, maxmin, dl_o) ==
    LET chk == _check_ytdlp(installed, check_o)
        meta == _fetch_video_metadata(installed, meta_o, duration)
    IN  IF chk # "ok"
        THEN [exc |-> chk, meta |-> meta, ev |-> <<"check_ytdlp">>]
        ELSE IF TooLong(meta.duration, maxmin)
        THEN [exc |-> "TranscriptNotAvailable", meta |-> meta,
              ev |-> <<"check_ytdlp", "metadata">>]
        ELSE IF dl_o # "ok"
        THEN [exc |-> "TranscriptNotAvailable", meta |-> meta,
              ev |-> <<"check_ytdlp", "metadata", "audio_download">>]
        ELSE [exc |-> "none", meta |-> meta,
              ev |-> <<"check_ytdlp", "metadata", "audio_download">>]

\* the exceptions the chain absorbs after each step (lines 412 and 428)
CaptionsCaught == {"TranscriptNotAvailable"}
SubsCaught == {"TranscriptNotAvailable", "YtDlpNotFound"}

\* where fetch_youtube_transcript goes after a step that ended with exc
\* ("none": the step returned): return, fall through to the next step, or
\* let the exception out
Advance(step, exc) ==
    IF exc = "none" THEN "done"
    ELSE IF step = "captions" /\ exc \in CaptionsCaught THEN "subs"
    ELSE IF step = "subs" /\ exc \in SubsCaught THEN "audio"
    ELSE "done"

\* a copy-paste slip: both results tagged "captions"
MethodTag_captions(step) == "captions"

\* the method tag of a TranscriptResult built after step (lines 410, 426)
MethodTag(step) == IF step = "captions" THEN "captions" ELSE "subs"

\* the flag ignored
AudioFallbackDisabled_never(allow) == FALSE

\* line 432: the audio fallback is refused
AudioFallbackDisabled(allow) == ~allow

Raised(e) == [NoResult EXCEPT !.kind = "raised", !.exc = e]

\* the value fetch_youtube_transcript ends with after a text step
TextStepResult(step, r, meta) ==
    IF r.exc = "none"
    THEN [NoResult EXCEPT !.kind = "TranscriptResult", !.method = MethodTag(step),
                          !.text = r.text, !.lang = r.lang, !.title = meta.title]
    ELSE IF Advance(step, r.exc) = "done" THEN Raised(r.exc)
    ELSE NoResult

FetchInit ==
    /\ lang \in LangOptions
    /\ allow_audio_fallback \in BOOLEAN
    /\ max_minutes \in 1..MaxMinutes
    /\ ytdlp_installed \in BOOLEAN
    /\ video_duration \in Durations
    /\ fpc = "captions"
    /\ events = <<>>
    /\ steps = <<>>
    /\ tracks = <<>>
    /\ chosen = NoChoice
    /\ fresult = NoResult
    /\ VttIdle /\ ChatIdle /\ SttIdle /\ SumIdle /\ CliIdle

\* fetch_youtube_transcript, lines 399-413: the caption lookup.  An outcome
\* is drawn only for a call the code makes.
CaptionLookup ==
    /\ fpc = "captions"
    /\ \E list_o \in ListOutcomes :
       \E ts \in (IF list_o = "ok" THEN TrackLists ELSE {<<>>}) :
       \E translate_ok \in (IF TranslateCalled(lang, ts) THEN BOOLEAN ELSE {TRUE}) :
       \E fetch_o \in (IF SelectTrack(lang, ts, translate_ok).idx # 0
                       THEN FetchOutcomes ELSE {"ok"}) :
       \E txt \in (IF fetch_o = "ok" THEN CaptionTexts ELSE {"none"}) :
       \E meta_o \in (IF ytdlp_installed THEN MetadataOutcomes ELSE {"not_found"}) :
        LET r == fetch_transcript_api(lang, ts, list_o, translate_ok, fetch_o, txt)
            meta == _fetch_video_metadata(ytdlp_installed, meta_o, video_duration)
        IN  /\ tracks' = ts
            /\ chosen' = r.chosen
            /\ events' = events \o <<"captions">> \o r.ev
                          \o (IF r.exc = "none" THEN <<"metadata">> ELSE <<>>)
            /\ steps' = Append(steps, [step |-> "captions", exc |-> r.exc])
            /\ fresult' = TextStepResult("captions", r, meta)
            /\ fpc' = Advance("captions", r.exc)
    /\ UNCHANGED <<lang, allow_audio_fallback, max_minutes, ytdlp_installed,
                   video_duration, vttVars, chatVars, sttVars, sumVars, cliVars>>

\* fetch_youtube_transcript, lines 415-429: the yt-dlp subtitle download
SubtitleDownload ==
    /\ fpc = "subs"
    /\ \E check_o \in (IF ytdlp_installed THEN CheckOutcomes ELSE {"not_found"}),
          run_o \in SubsOutcomes,
          meta_o \in (IF ytdlp_installed THEN MetadataOutcomes ELSE {"not_found"}) :
        LET r == fetch_subtitles_ytdlp(ytdlp_installed, check_o, run_o)
            meta == _fetch_video_metadata(ytdlp_installed, meta_o, video_duration)
        IN  /\ events' = events \o <<"subs">> \o r.ev
                          \o (IF r.exc = "none" THEN <<"metadata">> ELSE <<>>)
            /\ steps' = Append(steps, [step |-> "subs", exc |-> r.exc])
            /\ fresult' = TextStepResult("subs", r, meta)
            /\ fpc' = Advance("subs", r.exc)
    /\ UNCHANGED <<lang, allow_audio_fallback, max_minutes, ytdlp_installed,
                   video_duration, tracks, chosen, vttVars, chatVars, sttVars, sumVars,
                   cliVars>>

\* fetch_youtube_transcript, lines 431-440: the audio fallback
AudioFallback ==
    /\ fpc = "audio"
    /\ IF AudioFallbackDisabled(allow_audio_fallback)
       THEN /\ fresult' = Raised("TranscriptNotAvailable")
            /\ UNCHANGED <<events, steps>>
       ELSE \E check_o \in (IF ytdlp_installed THEN CheckOutcomes
                                                  ELSE {"not_found"}),
               meta_o \in (IF ytdlp_installed THEN MetadataOutcomes
                                              ELSE {"not_found"}),
               dl_o \in AudioOutcomes :
            LET r == download_audio(ytdlp_installed, check_o, meta_o,
                                    video_duration, max_minutes, dl_o)
            IN  /\ events' = events \o <<"audio">> \o r.ev
                /\ steps' = Append(steps, [step |-> "audio", exc |-> r.exc])
                /\ fresult' = IF r.exc = "none"
                              THEN [NoResult EXCEPT !.kind = "AudioDownloadResult",
                                       !.title = r.meta.title,
                                       !.duration = r.meta.duration]
                              ELSE Raised(r.exc)
    /\ fpc' = "done"
    /\ UNCHANGED <<lang, allow_audio_fallback, max_minutes, ytdlp_installed,
                   video_duration, tracks, chosen, vttVars, chatVars, sttVars, sumVars,
                   cliVars>>

FetchNext == CaptionLookup \/ SubtitleDownload \/ AudioFallback

SpecFetch == FetchInit /\ [][FetchNext]_vars

(***************************************************************************)
(* sources/youtube.py: _parse_vtt on one subtitle file.  A line is a       *)
(* sequence of characters and of symbols that stand for a run of           *)
(* characters: "WEBVTT", "NOTE", "-->", and "0" for a timestamp.           *)
(***************************************************************************)
MaxLineLen == 3
MaxPayloadLines == 2
PayloadChars == {"a", "[", "]", "(", ")", "<", ">"}
PayloadLines == UNION {[1..n -> PayloadChars] : n \in 1..MaxLineLen}
Timing == <<"0", " ", "-->", " ", "0">>
\* what precedes the payload of the first cue: the header, a comment block,
\* a cue identifier and the cue's timing line
Preamble == <<(<<"WEBVTT">>), <<>>, (<<"NOTE", " ", "a">>), <<>>, (<<"1">>), Timing>>
\* between two payload lines: nothing (one cue of two lines), or the end of
\* the cue and the identifier and timing line of the next
Breaks == {<<>>, <<(<<>>), (<<"a">>), Timing>>}
\* the subtitle files of at most n payload lines
VttDocuments(n) ==
    {Preamble \o <<l>> : l \in PayloadLines}
    \cup (IF n >= 2
          THEN {Preamble \o <<l1>> \o b \o <<l2>> :
                    l1 \in PayloadLines, b \in Breaks, l2 \in PayloadLines}
          ELSE {})
    \cup (IF n >= 3
          THEN {Preamble \o <<l1, l2>> \o b \o <<l3>> :
                    l1 \in {<<"a">>, <<"[", "a">>}, l2 \in {<<"a">>, <<"a", "]">>},
                    b \in Breaks, l3 \in PayloadLines}
          ELSE {})

\* str.strip()
RECURSIVE strip(_)
strip(str) ==
    IF str = <<>> THEN str
    ELSE IF Head(str) = " " THEN strip(Tail(str))
    ELSE IF str[Len(str)] = " " THEN strip(SubSeq(str, 1, Len(str) - 1))
    ELSE str

\* " ".join(units)
RECURSIVE join(_)
join(units) ==
    IF units = <<>> THEN <<>>
    ELSE IF Len(units) = 1 THEN units[1]
    ELSE units[1] \o <<" ">> \o join(Tail(units))

\* the first position after i that holds c, 0 when there is none
First(line, i, c) ==
    IF \E j \in (i + 1)..Len(line) : line[j] = c
    THEN CHOOSE j \in (i + 1)..Len(line) :
             line[j] = c /\ \A k \in (i + 1)..(j - 1) : line[k] # c
    ELSE 0

\* re.sub(r"<[^>]+>", "", line), line 133, from position i on
RECURSIVE RemoveTags(_, _)
RemoveTags(line, i) ==
    IF i > Len(line) THEN <<>>
    ELSE IF line[i] = "<" /\ First(line, i, ">") > i + 1
    THEN RemoveTags(line, First(line, i, ">") + 1)
    ELSE <<line[i]>> \o RemoveTags(line, i + 1)

\* re.sub(r"\[[^\]]*\]|\([^)]*\)", "", clean), line 135, from position i on
RECURSIVE RemoveAnnotations(_, _)
RemoveAnnotations(line, i) ==
    IF i > Len(line) THEN <<>>
    ELSE IF line[i] = "[" /\ First(line, i, "]") # 0
    THEN RemoveAnnotations(line, First(line, i, "]") + 1)
    ELSE IF line[i] = "(" /\ First(line, i, ")") # 0
    THEN RemoveAnnotations(line, First(line, i, ")") + 1)
    ELSE <<line[i]>> \o RemoveAnnotations(line, i + 1)

\* line.isdigit() or re.match(r"^[\w-]+$", line), line 128
IsCueIdentifier(line) ==
    line # <<>> /\ \A i \in 1..Len(line) : line[i] \in {"a", "0", "1", "WEBVTT", "NOTE"}

\* lines 112-138: the loop over the lines from the k-th on
RECURSIVE ParseLoop(_, _, _, _)
ParseLoop(content, k, in_cue, lines) ==
    IF k > Len(content) THEN lines
    ELSE LET line == strip(content[k])
             clean == strip(RemoveAnnotations(RemoveTags(line, 1), 1))
         IN  IF line = <<>> \/ line[1] \in {"WEBVTT", "NOTE"}
             THEN ParseLoop(content, k + 1, FALSE, lines)
             ELSE IF \E i \in 1..Len(line) : line[i] = "-->"
             THEN ParseLoop(content, k + 1, TRUE, lines)
             ELSE IF ~in_cue /\ IsCueIdentifier(line)
             THEN ParseLoop(content, k + 1, in_cue, lines)
             ELSE IF in_cue /\ clean # <<>>
             THEN ParseLoop(content, k + 1, in_cue, Append(lines, clean))
             ELSE ParseLoop(content, k + 1, in_cue, lines)

\* lines 140-144: consecutive identical lines are kept once
RECURSIVE Dedupe(_, _)
Dedupe(lines, deduped) ==
    IF lines = <<>> THEN deduped
    ELSE IF deduped = <<>> \/ deduped[Len(deduped)] # Head(lines)
    THEN Dedupe(Tail(lines), Append(deduped, Head(lines)))
    ELSE Dedupe(Tail(lines), deduped)

VttInit ==
    /\ lang = "auto"
    /\ allow_audio_fallback = FALSE
    /\ max_minutes = 0
    /\ ytdlp_installed = FALSE
    /\ video_duration = 0
    /\ fpc = "idle"
    /\ events = <<>>
    /\ steps = <<>>
    /\ tracks = <<>>
    /\ chosen = NoChoice
    /\ fresult = NoResult
    /\ ChatIdle /\ SttIdle /\ SumIdle /\ CliIdle
    /\ v_content \in VttDocuments(MaxPayloadLines)
    /\ v_lines = <<>>
    /\ v_text = <<>>
    /\ v_pc = "parse"

\* _parse_vtt, lines 108-145
_parse_vtt ==
    /\ v_pc = "parse"
    /\ v_lines' = Dedupe(ParseLoop(v_content, 1, FALSE, <<>>), <<>>)
    /\ v_text' = join(v_lines')
    /\ v_pc' = "done"
    /\ UNCHANGED <<v_content, lang, allow_audio_fallback, max_minutes,
                   ytdlp_installed, video_duration, fpc, events, steps, tracks,
                   chosen, fresult, chatVars, sttVars, sumVars, cliVars>>

SpecVtt == VttInit /\ [][_parse_vtt]_vars

(***************************************************************************)
(* The retry loops: summarize/map_reduce.py _call_with_retry and           *)
(* transcribe/openai_stt.py _transcribe_with_retry.                        *)
(***************************************************************************)
max_retries == 3
stt_max_retries == 3

\* what one provider call can do: return, raise an OpenAIError, or raise
\* something that is not an OpenAIError
CallOutcomes == {"ok", "OpenAIError", "Other"}
\* the provider's exception classes: OpenAIError and two of its subclasses,
\* raised for bad credentials and for a malformed request
ProviderErrors == {"OpenAIError", "AuthenticationError", "BadRequestError"}
\* `except OpenAIError` (map_reduce.py line 140, openai_stt.py line 53)
IsOpenAIError(outcome) == outcome \in ProviderErrors
\* what a call of a bare request can do
RetryOutcomes == CallOutcomes \cup ProviderErrors
Schemas == {"none", "map", "summary"}

\* an off-by-one in the loop bound: range(max_retries + 1)
_call_with_retry_extra(attempt, outcome) ==
    IF outcome = "ok"
    THEN [next |-> "returned", exc |-> "none", wait |-> 0]
    ELSE IF IsOpenAIError(outcome)
    THEN [next |-> IF attempt + 1 < max_retries + 1 THEN "retrying" ELSE "raised",
          exc |-> IF attempt + 1 < max_retries + 1 THEN "none"
                  ELSE "SummarizationError",
          wait |-> IF attempt < max_retries - 1 THEN 2 ^ (attempt + 1) ELSE 0]
    ELSE [next |-> "propagated", exc |-> "Other", wait |-> 0]

\* a loop that gives up at once on bad credentials
_call_with_retry_auth_final(attempt, outcome) ==
    IF outcome = "ok"
    THEN [next |-> "returned", exc |-> "none", wait |-> 0]
    ELSE IF outcome = "AuthenticationError"
    THEN [next |-> "raised", exc |-> "SummarizationError", wait |-> 0]
    ELSE IF IsOpenAIError(outcome)
    THEN [next |-> IF attempt + 1 < max_retries THEN "retrying" ELSE "raised",
          exc |-> IF attempt + 1 < max_retries THEN "none"
                  ELSE "SummarizationError",
          wait |-> IF attempt < max_retries - 1 THEN 2 ^ (attempt + 1) ELSE 0]
    ELSE [next |-> "propagated", exc |-> "Other", wait |-> 0]

\* _call_with_retry, one pass of `for attempt in range(max_retries)` whose
\* provider call ended with outcome: the call returns (line 138); or the
\* OpenAIError is caught, the loop sleeps unless this was the last pass and
\* goes on, raising SummarizationError after the last pass (lines 140-146);
\* or the exception is not an OpenAIError and leaves the function
_call_with_retry(attempt, outcome) ==
    IF outcome = "ok"
    THEN [next |-> "returned", exc |-> "none", wait |-> 0]
    ELSE IF IsOpenAIError(outcome)
    THEN [next |-> IF attempt + 1 < max_retries THEN "retrying" ELSE "raised",
          exc |-> IF attempt + 1 < max_retries THEN "none"
                  ELSE "SummarizationError",
          wait |-> IF attempt < max_retries - 1 THEN 2 ^ (attempt + 1) ELSE 0]
    ELSE [next |-> "propagated", exc |-> "Other", wait |-> 0]

\* a loop that sleeps after every failed pass, the last one included
_transcribe_with_retry_sleep_last(attempt, outcome) ==
    IF outcome = "ok"
    THEN [next |-> "returned", exc |-> "none", wait |-> 0]
    ELSE IF IsOpenAIError(outcome)
    THEN [next |-> IF attempt + 1 < stt_max_retries THEN "retrying" ELSE "raised",
          exc |-> IF attempt + 1 < stt_max_retries THEN "none"
                  ELSE "TranscriptionError",
          wait |-> 2 ^ (attempt + 1)]
    ELSE [next |-> "propagated", exc |-> "Other", wait |-> 0]

\* _transcribe_with_retry, one pass of its loop (lines 42-59)
_transcribe_with_retry(attempt, outcome) ==
    IF outcome = "ok"
    THEN [next |-> "returned", exc |-> "none", wait |-> 0]
    ELSE IF IsOpenAIError(outcome)
    THEN [next |-> IF attempt + 1 < stt_max_retries THEN "retrying" ELSE "raised",
          exc |-> IF attempt + 1 < stt_max_retries THEN "none"
                  ELSE "TranscriptionError",
          wait |-> IF attempt < stt_max_retries - 1 THEN 2 ^ (attempt + 1) ELSE 0]
    ELSE [next |-> "propagated", exc |-> "Other", wait |-> 0]

\* the calls the request in progress has made; a new request starts afresh
ChatSoFar == IF c_status = "retrying" THEN c_outcomes ELSE <<>>
ChatSleptSoFar == IF c_status = "retrying" THEN c_sleeps ELSE <<>>

\* one provider call of a chat request with the given json_schema
ChatAttempt(schema, outcome) ==
    LET r == _call_with_retry(Len(ChatSoFar), outcome)
    IN  /\ c_schema' = schema
        /\ c_outcomes' = Append(ChatSoFar, outcome)
        /\ c_sleeps' = IF r.wait > 0 THEN Append(ChatSleptSoFar, r.wait)
                       ELSE ChatSleptSoFar
        /\ c_status' = r.next
        /\ c_exc' = r.exc

RetryInit ==
    /\ FetchIdle /\ SumIdle /\ CliIdle
    /\ c_schema \in Schemas
    /\ c_outcomes = <<>>
    /\ c_sleeps = <<>>
    /\ c_status = "idle"
    /\ c_exc = "none"
    /\ t_outcomes = <<>>
    /\ t_sleeps = <<>>
    /\ t_status = "idle"
    /\ t_exc = "none"

\* a logical chat request: client.chat.completions.create under the loop
ChatRequest ==
    /\ spc = "idle"
    /\ c_status \in {"idle", "retrying"}
    /\ \E outcome \in RetryOutcomes : ChatAttempt(c_schema, outcome)
    /\ UNCHANGED <<fetchVars, sttVars, sumVars, cliVars>>

\* a logical speech-to-text request: client.audio.transcriptions.create
\* under the loop
TranscribeRequest ==
    /\ t_status \in {"idle", "retrying"}
    /\ \E outcome \in RetryOutcomes :
        LET r == _transcribe_with_retry(Len(t_outcomes), outcome)
        IN  /\ t_outcomes' = Append(t_outcomes, outcome)
            /\ t_sleeps' = IF r.wait > 0 THEN Append(t_sleeps, r.wait) ELSE t_sleeps
            /\ t_status' = r.next
            /\ t_exc' = r.exc
    /\ UNCHANGED <<fetchVars, chatVars, sumVars, cliVars>>

RetryNext == ChatRequest \/ TranscribeRequest

SpecRetry == RetryInit /\ [][RetryNext]_vars

(***************************************************************************)
(* summarize/map_reduce.py: chunk_transcript and summarize_transcript.     *)
(***************************************************************************)
MaxSentences == 3
SentenceTokens == {1, 2}
ChunkBudgets == {1, 2, 3}
Transcripts == UNION {[1..n -> SentenceTokens] : n \in 0..MaxSentences}

\* chunk_transcript, lines 174-192: the loop over the sentence units from
\* the k-th on; a chunk is the sequence of its units' token counts
RECURSIVE ChunkLoop(_, _, _, _, _, _)
ChunkLoop(sents, k, budget, current_chunk, current_tokens, done) ==
    IF k > Len(sents)
    THEN IF current_chunk # <<>> THEN Append(done, current_chunk) ELSE done
    ELSE IF current_tokens + sents[k] > budget /\ current_chunk # <<>>
    THEN ChunkLoop(sents, k + 1, budget, <<sents[k]>>, sents[k],
                   Append(done, current_chunk))
    ELSE ChunkLoop(sents, k + 1, budget, Append(current_chunk, sents[k]),
                   current_tokens + sents[k], done)

\* the test of line 181 written with >= for >
chunk_transcript_ge(sents, budget) ==
    ChunkLoop(sents, 1, budget - 1, <<>>, 0, <<>>)

\* the loop's result returned without the final append of lines 189-190
chunk_transcript_no_tail(sents, budget) ==
    LET done == ChunkLoop(sents, 1, budget, <<>>, 0, <<>>)
    IN  SubSeq(done, 1, Len(done) - 1)

\* the final append made without the test of line 189
chunk_transcript_append_always(sents, budget) ==
    IF sents = <<>> THEN << <<>> >> ELSE ChunkLoop(sents, 1, budget, <<>>, 0, <<>>)

chunk_transcript(sents, budget) == ChunkLoop(sents, 1, budget, <<>>, 0, <<>>)

\* what the model can answer to a map request, and to the two reduce requests
MapResponses == {"json", "fenced_json", "garbage"}
MdResponses == {"markdown", "fenced_markdown", ""}
\* item counts of a structured summary: within the FinalSummary bounds (at
\* the lower and at the upper end), the fixture of test_summarize_json, and
\* one over every upper bound
CountSamples ==
    {[tldr |-> 3, key_points |-> 8, chapters |-> 3, quotes |-> 0,
      action_items |-> 3, tags |-> 5],
     [tldr |-> 3, key_points |-> 12, chapters |-> 6, quotes |-> 5,
      action_items |-> 7, tags |-> 10],
     [tldr |-> 3, key_points |-> 2, chapters |-> 1, quotes |-> 1,
      action_items |-> 1, tags |-> 2],
     [tldr |-> 4, key_points |-> 13, chapters |-> 7, quotes |-> 6,
      action_items |-> 8, tags |-> 11]}
SummaryResponses ==
    {[shape |-> sh, counts |-> c] : sh \in {"object", "fenced_object"},
                                   c \in CountSamples}
    \cup {[shape |-> sh, counts |-> NoCounts] :
             sh \in {"garbage", "not_object", "missing_field"}}

\* _strip_code_fence, lines 280-291
_strip_code_fence(shape) ==
    IF shape = "fenced_object" THEN "object"
    ELSE IF shape = "fenced_markdown" THEN "markdown"
    ELSE IF shape = "fenced_json" THEN "json"
    ELSE shape

\* json.loads outside the try block: a parse failure leaves the function
_map_chunk_unguarded(use_structured, response) ==
    IF response = "json" \/ (~use_structured /\ response = "fenced_json")
    THEN [exc |-> "none", extract |-> "extract"]
    ELSE [exc |-> "JSONDecodeError", extract |-> "none"]

\* _map_chunk, lines 207-223, applied to a response: the extract, or the
\* exception it raises. With use_structured the response goes to json.loads
\* as it is; otherwise a leading fence and its "json" tag are cut off first
\* and a JSONDecodeError yields the empty extract.
_map_chunk(use_structured, response) ==
    IF use_structured
    THEN IF response = "json" THEN [exc |-> "none", extract |-> "extract"]
         ELSE [exc |-> "JSONDecodeError", extract |-> "none"]
    ELSE IF response \in {"json", "fenced_json"}
         THEN [exc |-> "none", extract |-> "extract"]
         ELSE [exc |-> "none", extract |-> "empty"]

\* json.loads followed by SummarySchema(**json_data) (schema.py, lines
\* 14-24): the exception raised, "none" when a SummarySchema is built.
\* The schema's lists carry no length constraint.
SummarySchema(shape) ==
    IF shape = "object" THEN "none"
    ELSE IF shape = "missing_field" THEN "ValidationError"
    ELSE IF shape = "not_object" THEN "TypeError"
    ELSE "JSONDecodeError"

\* the structured reduce applied to a response (lines 336-348, 251-252):
\* the exception that leaves summarize_transcript, "none" on success
ReduceJson(use_structured, shape) ==
    IF use_structured THEN SummarySchema(shape)
    ELSE LET e == SummarySchema(_strip_code_fence(shape))
         IN  IF e \in {"JSONDecodeError", "ValidationError"}
             THEN "SummarizationError" ELSE e

\* the loop index itself
ChunkOrdinal_index(i) == i

\* line 325: the chunk ordinal named in the error, for loop index i
ChunkOrdinal(i) == i + 1

\* `elif` for the second format test: the structured reduce skipped when
\* markdown was requested too
PhaseAfter_elif(from, fmts) ==
    IF from = "map" THEN
        IF "md" \in fmts THEN "reduce_md"
        ELSE IF "json" \in fmts THEN "reduce_json" ELSE "return"
    ELSE "return"

\* where summarize_transcript goes after the phase `from` (the format tests
\* of lines 332 and 336, and the return of line 350)
PhaseAfter(from, fmts) ==
    IF from = "map" THEN
        IF "md" \in fmts THEN "reduce_md"
        ELSE IF "json" \in fmts THEN "reduce_json" ELSE "return"
    ELSE IF from = "reduce_md" THEN
        IF "json" \in fmts THEN "reduce_json" ELSE "return"
    ELSE "return"

\* an exception leaving summarize_transcript; stage tells where it arose:
\* "config" (_get_client), "map" ("Failed on chunk i/n"), "reduce_call" (a
\* reduce request ended in an exception), "reduce_validation" (the
\* structured reduce response was rejected)
Failure(exc, stage, ordinal, total) ==
    [kind |-> "raised", exc |-> exc, stage |-> stage, ordinal |-> ordinal,
     total |-> total]

SummarizeInit ==
    /\ FetchIdle /\ ChatIdle /\ SttIdle /\ CliIdle
    /\ api_key_set \in BOOLEAN
    /\ sentences \in Transcripts
    /\ chunk_tokens \in ChunkBudgets
    /\ formats \in SUBSET {"md", "json"}
    /\ use_structured_output \in BOOLEAN
    /\ spc = "start"
    /\ chunks = <<>>
    /\ requests = <<>>
    /\ total_calls = 0
    /\ any_call_failed = FALSE
    /\ any_rejected = FALSE
    /\ chunk_summaries = <<>>
    /\ json_response = NoResponse
    /\ md_result = "None"
    /\ json_result = NoSummary
    /\ sresult = NoOutcome

\* the bookkeeping of one provider call made for the request [phase, chunk]
CallMade(phase, chunk, outcome) ==
    /\ requests' = IF c_status = "retrying" THEN requests
                   ELSE Append(requests, [phase |-> phase, chunk |-> chunk])
    /\ total_calls' = total_calls + 1
    /\ any_call_failed' = (any_call_failed \/ outcome # "ok")

\* lines 313-316: _get_client and chunk_transcript
Start ==
    /\ spc = "start"
    /\ IF ~api_key_set
       THEN /\ sresult' = Failure("SummarizationError", "config", 0, 0)
            /\ spc' = "done"
            /\ chunks' = chunks
       ELSE /\ chunks' = chunk_transcript(sentences, chunk_tokens)
            /\ spc' = IF chunk_transcript(sentences, chunk_tokens) # <<>>
                      THEN "map"
                      ELSE PhaseAfter("map", formats)
            /\ sresult' = sresult
    /\ UNCHANGED <<api_key_set, sentences, chunk_tokens, formats,
                   use_structured_output, requests, total_calls, any_call_failed,
                   any_rejected, chunk_summaries, json_response, md_result,
                   json_result, fetchVars, chatVars, sttVars,
                   cliVars>>

\* lines 320-325: one provider call of the map request of the next chunk
MapCall ==
    /\ spc = "map"
    /\ \E outcome \in CallOutcomes :
       \E response \in (IF outcome = "ok" THEN MapResponses ELSE {"none"}) :
        LET i == Len(chunk_summaries)
            r == _call_with_retry(Len(ChatSoFar), outcome)
            m == _map_chunk(use_structured_output, response)
        IN  /\ ChatAttempt(IF use_structured_output THEN "map" ELSE "none", outcome)
            /\ CallMade("map", ChunkOrdinal(i), outcome)
            /\ IF r.next = "retrying"
               THEN UNCHANGED <<spc, chunk_summaries, sresult, any_rejected>>
               ELSE IF r.next = "returned" /\ m.exc = "none"
               THEN /\ chunk_summaries' =
                         Append(chunk_summaries,
                                [chunk |-> ChunkOrdinal(i), extract |-> m.extract])
                    /\ spc' = IF i + 1 < Len(chunks) THEN "map"
                              ELSE PhaseAfter("map", formats)
                    /\ UNCHANGED <<sresult, any_rejected>>
               ELSE /\ sresult' = Failure("SummarizationError", "map",
                                          ChunkOrdinal(i), Len(chunks))
                    /\ any_rejected' = (any_rejected \/ r.next = "returned")
                    /\ spc' = "done"
                    /\ UNCHANGED chunk_summaries
    /\ UNCHANGED <<api_key_set, sentences, chunk_tokens, formats,
                   use_structured_output, chunks, json_response, md_result,
                   json_result, fetchVars, sttVars, cliVars>>

\* lines 332-334: one provider call of the markdown reduce request
ReduceMdCall ==
    /\ spc = "reduce_md"
    /\ \E outcome \in CallOutcomes :
       \E response \in (IF outcome = "ok" THEN MdResponses ELSE {"none"}) :
        LET r == _call_with_retry(Len(ChatSoFar), outcome)
        IN  /\ ChatAttempt("none", outcome)
            /\ CallMade("reduce_md", 0, outcome)
            /\ IF r.next = "retrying"
               THEN UNCHANGED <<spc, md_result, sresult>>
               ELSE IF r.next = "returned"
               THEN /\ md_result' = _strip_code_fence(response)
                    /\ spc' = PhaseAfter("reduce_md", formats)
                    /\ UNCHANGED sresult
               ELSE /\ sresult' = Failure(r.exc, "reduce_call", 0, 0)
                    /\ spc' = "done"
                    /\ UNCHANGED md_result
    /\ UNCHANGED <<api_key_set, sentences, chunk_tokens, formats,
                   use_structured_output, chunks, chunk_summaries, any_rejected,
                   json_response, json_result, fetchVars, sttVars, cliVars>>

\* lines 336-348: one provider call of the structured reduce request
ReduceJsonCall ==
    /\ spc = "reduce_json"
    /\ \E outcome \in CallOutcomes :
       \E response \in (IF outcome = "ok" THEN SummaryResponses ELSE {NoResponse}) :
        LET r == _call_with_retry(Len(ChatSoFar), outcome)
            e == ReduceJson(use_structured_output, response.shape)
        IN  /\ ChatAttempt(IF use_structured_output THEN "summary" ELSE "none",
                           outcome)
            /\ CallMade("reduce_json", 0, outcome)
            /\ json_response' = response
            /\ IF r.next = "retrying"
               THEN UNCHANGED <<spc, json_result, sresult, any_rejected>>
               ELSE IF r.next = "returned" /\ e = "none"
               THEN /\ json_result' = [present |-> TRUE, counts |-> response.counts]
                    /\ spc' = PhaseAfter("reduce_json", formats)
                    /\ UNCHANGED <<sresult, any_rejected>>
               ELSE IF r.next = "returned"
               THEN /\ sresult' = Failure(e, "reduce_validation", 0, 0)
                    /\ any_rejected' = TRUE
                    /\ spc' = "done"
                    /\ UNCHANGED json_result
               ELSE /\ sresult' = Failure(r.exc, "reduce_call", 0, 0)
                    /\ spc' = "done"
                    /\ UNCHANGED <<json_result, any_rejected>>
    /\ UNCHANGED <<api_key_set, sentences, chunk_tokens, formats,
                   use_structured_output, chunks, chunk_summaries, md_result,
                   fetchVars, sttVars, cliVars>>

\* line 350: return md_result, json_result
Return ==
    /\ spc = "return"
    /\ sresult' = [NoOutcome EXCEPT !.kind = "returned"]
    /\ spc' = "done"
    /\ UNCHANGED <<api_key_set, sentences, chunk_tokens, formats,
                   use_structured_output, chunks, requests, total_calls,
                   any_call_failed, any_rejected, chunk_summaries, json_response,
                   md_result, json_result, fetchVars, chatVars, sttVars,
                   cliVars>>

SummarizeNext == Start \/ MapCall \/ ReduceMdCall \/ ReduceJsonCall \/ Return

SpecSummarize == SummarizeInit /\ [][SummarizeNext]_vars

\* the same with the steps of the request taken as long as there is one to
\* take: each provider call returns or raises, and the function goes on
SpecSummarizeLive == SpecSummarize /\ WF_vars(SummarizeNext)

(***************************************************************************)
(* cache.py: cache keys, the cache directory and its operations.           *)
(* A string whose structure matters (a key, a file name, a format          *)
(* selector) is a sequence of characters and of symbols that stand for a   *)
(* run of characters without separator; None is written "None".            *)
(***************************************************************************)
\* the method left out of the key
get_cache_key_youtube_no_method(video_id, language, method) ==
    video_id \o <<"_">> \o language

\* line 36: f"{video_id}_{lang}_{method}"
get_cache_key_youtube(video_id, language, method) ==
    video_id \o <<"_">> \o language \o <<"_">> \o method

\* line 54: f"{cache_key}_{cache_type}.json" in the cache directory
_get_cache_path(cache_key, cache_type) ==
    cache_key \o <<"_", cache_type, ".json">>

\* two keys in use: one of a YouTube source, one of a local file (the first
\* 16 hex digits of a content hash, lines 39-42)
CacheKeys ==
    {get_cache_key_youtube(<<"a">>, <<"e", "n">>, <<"captions">>), <<"f00d">>}
CacheTypes == {"transcript", "summary"}
CachePaths == {_get_cache_path(k, t) : k \in CacheKeys, t \in CacheTypes}

\* the fields of the two dataclasses, lines 11-31
TranscriptFields ==
    {"text", "video_id", "title", "channel", "lang", "method", "cached_at"}
SummaryFields == {"markdown", "json_data", "model", "cached_at"}
CachedTranscripts ==
    {[text |-> t, video_id |-> "a", title |-> "T", channel |-> "C",
      lang |-> "en", method |-> "captions", cached_at |-> "t0"] :
        t \in {"", "hello"}}
CachedSummaries ==
    {[markdown |-> r[1], json_data |-> r[2], model |-> "gpt-4o-mini",
      cached_at |-> "t0"] :
        r \in {<<"# md", "dict">>, <<"# md", "None">>, <<"None", "dict">>,
               <<"", "dict">>, <<"# md", "{}">>}}

\* a file's content: JSON text by the shape of the value it denotes
\* (members: an object's members, an array's items by position), text that
\* is not JSON, or no file
Absent == [shape |-> "absent", members |-> NoMembers]
Unparseable == [shape |-> "unparseable", members |-> NoMembers]
JsonArray == [shape |-> "array", members |-> [i \in {"0"} |-> "x"]]
EmptyObject == [shape |-> "object", members |-> NoMembers]
Incomplete == [shape |-> "object", members |-> [f \in {"title"} |-> "T"]]
Malformed == {Unparseable, JsonArray, EmptyObject, Incomplete}

\* json.dumps of a dict of None, strings and dicts (line 71)
json_dumps(data) ==
    [shape |-> "object",
     members |-> [f \in DOMAIN data |->
                     IF data[f] = "None" THEN "null" ELSE data[f]]]

\* null left as it is read
json_loads_raw(doc) ==
    [type |-> IF doc.shape = "object" THEN "dict"
              ELSE IF doc.shape = "array" THEN "list" ELSE "NoneType",
     value |-> doc.members]

\* json.loads of JSON text (line 62): the Python value
json_loads(doc) ==
    [type |-> IF doc.shape = "object" THEN "dict"
              ELSE IF doc.shape = "array" THEN "list" ELSE "NoneType",
     value |-> [f \in DOMAIN doc.members |->
                   IF doc.members[f] = "null" THEN "None" ELSE doc.members[f]]]

PyNone == [type |-> "NoneType", value |-> NoMembers]
\* truth value of None, a dict or a list
Truthy(v) == v.type # "NoneType" /\ DOMAIN v.value # {}

exists(fs, path) == fs[path].shape # "absent"

\* load_cached, lines 57-65
load_cached(fs, cache_key, cache_type) ==
    LET cache_file == _get_cache_path(cache_key, cache_type)
    IN  IF exists(fs, cache_file)
        THEN IF fs[cache_file].shape = "unparseable" THEN PyNone
             ELSE json_loads(fs[cache_file])
        ELSE PyNone

\* a dataclass constructor called with **data (lines 78 and 102)
Construct(fields, data) ==
    IF data.type = "dict" /\ DOMAIN data.value = fields
    THEN Loaded(data.value)
    ELSE LoadRaised("TypeError")

\* load_transcript, lines 74-79
load_transcript(fs, cache_key) ==
    LET data == load_cached(fs, cache_key, "transcript")
    IN  IF Truthy(data) THEN Construct(TranscriptFields, data) ELSE LoadedNone

\* str.split(",") (line 105): the loop over the characters from the k-th on
RECURSIVE SplitLoop(_, _, _, _)
SplitLoop(str, k, current, done) ==
    IF k > Len(str) THEN Append(done, current)
    ELSE IF str[k] = "," THEN SplitLoop(str, k + 1, <<>>, Append(done, current))
    ELSE SplitLoop(str, k + 1, Append(current, str[k]), done)

Split(str) == SplitLoop(str, 1, <<>>, <<>>)

\* x in list
In(x, list) == \E i \in 1..Len(list) : list[i] = x

Md == <<"m", "d">>
Json == <<"j", "s", "o", "n">>
\* values of --format / output_format
OutputFormats ==
    {Md, Json, Md \o <<",">> \o Json, Md \o <<",", " ">> \o Json, <<>>}

\* `not x` for None, a string or a dict
Falsy(x) == x \in {"None", "", "{}"}

\* markdown and json_data of a record dropped: load_summary without its
\* format test
load_summary_unchecked(fs, cache_key, output_format) ==
    LET data == load_cached(fs, cache_key, "summary")
    IN  IF ~Truthy(data) THEN LoadedNone ELSE Construct(SummaryFields, data)

\* load_summary, lines 87-111
load_summary(fs, cache_key, output_format) ==
    LET data == load_cached(fs, cache_key, "summary")
        summary == Construct(SummaryFields, data)
        fmts == Split(output_format)
    IN  IF ~Truthy(data) THEN LoadedNone
        ELSE IF summary.kind = "raised" THEN summary
        ELSE IF In(Md, fmts) /\ Falsy(summary.record.markdown) THEN LoadedNone
        ELSE IF In(Json, fmts) /\ Falsy(summary.record.json_data) THEN LoadedNone
        ELSE summary

\* save_to_cache, lines 68-71
save_to_cache(fs, cache_key, cache_type, data) ==
    [fs EXCEPT ![_get_cache_path(cache_key, cache_type)] = json_dumps(data)]

\* cache_dir.glob("*.json")
glob(fs) == {path \in DOMAIN fs : exists(fs, path)}

\* dict.get(key, default)
Get(members, key, default) ==
    IF key \in DOMAIN members THEN members[key] ELSE default

\* list_cached, lines 149-172: the rows, for each file *_transcript.json;
\* text that is not JSON is skipped, a JSON value without .get raises
list_cached(fs) ==
    LET found == {path \in glob(fs) : path[Len(path) - 1] = "transcript"}
        stem(path) == SubSeq(path, 1, Len(path) - 3)
    IN  IF \E path \in found : fs[path].shape = "array"
        THEN LoadRaised("AttributeError")
        ELSE Loaded({[cache_key |-> stem(path),
                      video_id |-> Get(fs[path].members, "video_id", <<>>),
                      has_summary |->
                          exists(fs, _get_cache_path(stem(path), "summary"))] :
                     path \in {f \in found : fs[f].shape = "object"}})

\* every file of the directory removed whatever the key
clear_cache_all(fs, cache_key) ==
    [files |-> [path \in DOMAIN fs |-> Absent], count |-> Cardinality(glob(fs))]

\* clear_cache, lines 119-146; cache_key is <<>> for None and for ""
clear_cache(fs, cache_key) ==
    IF cache_key # <<>>
    THEN LET mine == {_get_cache_path(cache_key, suffix) :
                         suffix \in {"transcript", "summary"}}
         IN  [files |-> [path \in DOMAIN fs |->
                            IF path \in mine THEN Absent ELSE fs[path]],
              count |-> Cardinality(mine \cap glob(fs))]
    ELSE [files |-> [path \in DOMAIN fs |-> Absent],
          count |-> Cardinality(glob(fs))]

CacheInit ==
    /\ FetchIdle /\ ChatIdle /\ SttIdle /\ SumIdle /\ KeyIdle /\ TextIdle
    /\ WriteIdle
    /\ RunIdle
    /\ files = [path \in CachePaths |-> Absent]
    /\ op = [NoOp EXCEPT !.before = [path \in CachePaths |-> Absent]]
    /\ saved = NoSave

\* the part of an operation's record every operation sets; a clearing
\* operation also keeps the directory as it found it
Did(name, key, fmt, ret) ==
    [NoOp EXCEPT !.name = name, !.key = key, !.fmt = fmt, !.ret = ret,
                 !.before = IF name \in {"clear_cache", "cache_clear"}
                             THEN files
                             ELSE [path \in CachePaths |-> Absent]]

\* save_transcript, lines 82-84
SaveTranscript ==
    /\ \E k \in CacheKeys, r \in CachedTranscripts :
        /\ files' = save_to_cache(files, k, "transcript", r)
        /\ op' = Did("save_transcript", k, <<>>, LoadedNone)
        /\ saved' = [kind |-> "transcript", key |-> k, record |-> r]
    /\ UNCHANGED <<fetchVars, chatVars, sttVars, sumVars, keyVars, textVars, writeVars,
                   runVars>>

\* save_summary, lines 114-116
SaveSummary ==
    /\ \E k \in CacheKeys, r \in CachedSummaries :
        /\ files' = save_to_cache(files, k, "summary", r)
        /\ op' = Did("save_summary", k, <<>>, LoadedNone)
        /\ saved' = [kind |-> "summary", key |-> k, record |-> r]
    /\ UNCHANGED <<fetchVars, chatVars, sttVars, sumVars, keyVars, textVars, writeVars,
                   runVars>>

\* something other than this program leaves a file that is no record, in a
\* directory that holds no such file yet
Damage ==
    /\ \A path \in CachePaths : files[path] \notin Malformed
    /\ \E path \in CachePaths, doc \in Malformed :
        /\ files' = [files EXCEPT ![path] = doc]
        /\ op' = Did("damage", <<>>, <<>>, LoadedNone)
        /\ saved' = NoSave
    /\ UNCHANGED <<fetchVars, chatVars, sttVars, sumVars, keyVars, textVars, writeVars,
                   runVars>>

LoadTranscript ==
    /\ \E k \in CacheKeys :
        op' = Did("load_transcript", k, <<>>, load_transcript(files, k))
    /\ UNCHANGED <<files, saved>>
    /\ UNCHANGED <<fetchVars, chatVars, sttVars, sumVars, keyVars, textVars, writeVars,
                   runVars>>

LoadSummary ==
    /\ \E k \in CacheKeys, output_format \in OutputFormats :
        op' = Did("load_summary", k, output_format,
                  load_summary(files, k, output_format))
    /\ UNCHANGED <<files, saved>>
    /\ UNCHANGED <<fetchVars, chatVars, sttVars, sumVars, keyVars, textVars, writeVars,
                   runVars>>

\* clear_cache called with a key or with None
ClearCache ==
    /\ \E k \in CacheKeys \cup {<<>>} :
        LET c == clear_cache(files, k)
        IN  /\ files' = c.files
            /\ op' = [Did("clear_cache", k, <<>>, LoadedNone)
                        EXCEPT !.count = c.count]
    /\ saved' = NoSave
    /\ UNCHANGED <<fetchVars, chatVars, sttVars, sumVars, keyVars, textVars, writeVars,
                   runVars>>

\* the `cache clear` command, cli.py lines 509-526; key is <<>> when --key
\* is not given
cache_clear ==
    /\ \E key \in CacheKeys \cup {<<>>}, all_entries \in BOOLEAN :
        LET c == clear_cache(files, key)
            did == [Did("cache_clear", key, <<>>, LoadedNone)
                      EXCEPT !.all = all_entries]
        IN  IF key = <<>> /\ ~all_entries
            THEN /\ op' = [did EXCEPT !.exit = 1]
                 /\ UNCHANGED <<files, saved>>
            ELSE /\ files' = c.files
                 /\ op' = [did EXCEPT !.count = c.count]
                 /\ saved' = NoSave
    /\ UNCHANGED <<fetchVars, chatVars, sttVars, sumVars, keyVars, textVars, writeVars,
                   runVars>>

CacheNext ==
    \/ SaveTranscript \/ SaveSummary \/ Damage \/ LoadTranscript
    \/ LoadSummary \/ ClearCache \/ cache_clear

SpecCache == CacheInit /\ [][CacheNext]_vars

(***************************************************************************)
(* cache.py save_to_cache called by two invocations for the same key and   *)
(* kind.  Path.write_text opens the file for writing, which truncates it,  *)
(* writes the text at the writer's own offset in one or several write      *)
(* calls, and closes it; nothing orders the steps of the two writers.      *)
(***************************************************************************)
MaxRecordLen == 3
Writers == {1, 2}
\* json.dumps(data) of a writer's record (line 71): an object whose content
\* is n bytes that only this writer writes
JsonText(w, n) == <<"{">> \o [i \in 1..n |-> IF w = 1 THEN "a" ELSE "b"] \o <<"}">>
\* json.loads accepts the text (load_cached, line 62)
Parseable(bytes) ==
    /\ Len(bytes) >= 2
    /\ bytes[1] = "{" /\ bytes[Len(bytes)] = "}"
    /\ \A i \in 2..(Len(bytes) - 1) : bytes[i] \in {"a", "b"}

\* write(2) of piece at offset pos: a gap past the end reads as zero bytes
WriteAt(bytes, pos, piece) ==
    LET end == pos + Len(piece)
        size == IF end > Len(bytes) THEN end ELSE Len(bytes)
    IN  [i \in 1..size |->
            IF i > pos /\ i <= end THEN piece[i - pos]
            ELSE IF i <= Len(bytes) THEN bytes[i] ELSE "NUL"]

WriteInit ==
    /\ FetchIdle /\ ChatIdle /\ SttIdle /\ SumIdle
    /\ CacheIdle /\ KeyIdle /\ TextIdle /\ RunIdle
    /\ \E n1, n2 \in 1..MaxRecordLen :
         w_data = [w \in Writers |-> JsonText(w, IF w = 1 THEN n1 ELSE n2)]
    /\ w_file \in {<<>>, JsonText(1, 1)}
    /\ w_pc = [w \in Writers |-> "open"]
    /\ w_pos = [w \in Writers |-> 0]
    /\ w_finished = <<>>

\* open(path, "w")
OpenFile(w) ==
    /\ w_pc[w] = "open"
    /\ w_file' = <<>>
    /\ w_pc' = [w_pc EXCEPT ![w] = "write"]
    /\ UNCHANGED <<w_data, w_pos, w_finished>>
    /\ UNCHANGED <<fetchVars, chatVars, sttVars, sumVars, cacheVars, keyVars,
                   textVars, runVars>>

\* one write call: the text in one piece, or the next piece of a long text
WritePiece(w) ==
    /\ w_pc[w] = "write"
    /\ w_pos[w] < Len(w_data[w])
    /\ \E n \in 1..(Len(w_data[w]) - w_pos[w]) :
         /\ w_file' = WriteAt(w_file, w_pos[w],
                              SubSeq(w_data[w], w_pos[w] + 1, w_pos[w] + n))
         /\ w_pos' = [w_pos EXCEPT ![w] = @ + n]
    /\ UNCHANGED <<w_data, w_pc, w_finished>>
    /\ UNCHANGED <<fetchVars, chatVars, sttVars, sumVars, cacheVars, keyVars,
                   textVars, runVars>>

\* close, and save_to_cache returns
CloseFile(w) ==
    /\ w_pc[w] = "write"
    /\ w_pos[w] = Len(w_data[w])
    /\ w_pc' = [w_pc EXCEPT ![w] = "closed"]
    /\ w_finished' = Append(w_finished, w)
    /\ UNCHANGED <<w_data, w_file, w_pos>>
    /\ UNCHANGED <<fetchVars, chatVars, sttVars, sumVars, cacheVars, keyVars,
                   textVars, runVars>>

WriteNext == \E w \in Writers : OpenFile(w) \/ WritePiece(w) \/ CloseFile(w)

SpecWrite == WriteInit /\ [][WriteNext]_vars

(***************************************************************************)
(* get_cache_key_youtube over the valid triples. A video id has a fixed    *)
(* length (11 characters of [a-zA-Z0-9_-], youtube.py line 48), a language *)
(* is any short string, a method is one of three words without separator.  *)
(***************************************************************************)
IdLen == 2
MaxLangLen == 2
IdChars == {"a", "_"}
LangChars == {"e", "_"}
VideoIds == [1..IdLen -> IdChars]
LangCodes == UNION {[1..n -> LangChars] : n \in 0..MaxLangLen}
Methods == {<<"captions">>, <<"subs">>, <<"stt">>}
Triples == VideoIds \X LangCodes \X Methods

KeyInit ==
    /\ FetchIdle /\ ChatIdle /\ SttIdle /\ SumIdle /\ CacheIdle /\ TextIdle
    /\ WriteIdle
    /\ RunIdle
    /\ k_a \in Triples
    /\ k_b \in Triples
    /\ k_keys = <<>>

\* the keys of the two triples
DeriveKeys ==
    /\ k_keys = <<>>
    /\ k_keys' = <<get_cache_key_youtube(k_a[1], k_a[2], k_a[3]),
                   get_cache_key_youtube(k_b[1], k_b[2], k_b[3])>>
    /\ UNCHANGED <<k_a, k_b, fetchVars, chatVars, sttVars, sumVars, cacheVars,
                   textVars, runVars, writeVars>>

KeyNext == DeriveKeys

SpecKey == KeyInit /\ [][KeyNext]_vars

(***************************************************************************)
(* chunk_transcript on the characters of a text (map_reduce.py) and the    *)
(* chunk count estimate_summarization_cost predicts for it (costs.py).     *)
(***************************************************************************)
MaxTextLen == 7
MaxBudget == 4
TextChars == {"a", ".", " "}
Texts == UNION {[1..n -> TextChars] : n \in 0..MaxTextLen}
TextBudgets == 1..MaxBudget

\* len(enc.encode(str)) and count_tokens, lines 149-155 and 179; the
\* encoding itself belongs to tiktoken: here every character other than a
\* space is one token
Tokens(str) == Cardinality({i \in 1..Len(str) : str[i] # " "})

\* str.split(". "), the loop over the characters from the k-th on
RECURSIVE SplitSentencesLoop(_, _, _, _)
SplitSentencesLoop(str, k, current, done) ==
    IF k > Len(str) THEN Append(done, current)
    ELSE IF str[k] = "." /\ k < Len(str) /\ str[k + 1] = " "
    THEN SplitSentencesLoop(str, k + 2, <<>>, Append(done, current))
    ELSE SplitSentencesLoop(str, k + 1, Append(current, str[k]), done)

\* lines 171-172: the sentence units of a text (none of the characters
\* line 171 replaces occurs in TextChars)
SentenceUnits(str) ==
    LET parts == SplitSentencesLoop(str, 1, <<>>, <<>>)
        kept == SelectSeq(parts, LAMBDA part : strip(part) # <<>>)
    IN  [i \in 1..Len(kept) |-> strip(kept[i]) \o <<".">>]

\* the units of each chunk, for chunks given by their units' token counts
RECURSIVE Regroup(_, _)
Regroup(units, groups) ==
    IF groups = <<>> THEN <<>>
    ELSE <<SubSeq(units, 1, Len(groups[1]))>>
         \o Regroup(SubSeq(units, Len(groups[1]) + 1, Len(units)), Tail(groups))

\* chunk_transcript, lines 158-192, on a text: the chunks as texts
ChunkTexts(str, budget) ==
    LET units == SentenceUnits(str)
        counts == [i \in 1..Len(units) |-> Tokens(units[i])]
        grouped == Regroup(units, chunk_transcript(counts, budget))
    IN  [i \in 1..Len(grouped) |-> join(grouped[i])]

Max(a, b) == IF a >= b THEN a ELSE b

\* estimate_summarization_cost, costs.py line 40: num_chunks
estimate_summarization_cost(token_count, budget) ==
    Max(1, token_count \div budget)

TextInit ==
    /\ FetchIdle /\ ChatIdle /\ SttIdle /\ SumIdle /\ CacheIdle /\ KeyIdle
    /\ WriteIdle
    /\ RunIdle
    /\ x_text \in Texts
    /\ x_chunk_tokens \in TextBudgets
    /\ x_chunks = <<>>
    /\ x_estimate = 0
    /\ x_pc = "estimate"

\* cli.py lines 425-426: count_tokens and estimate_summarization_cost
EstimateCost ==
    /\ x_pc = "estimate"
    /\ x_estimate' = estimate_summarization_cost(Tokens(x_text), x_chunk_tokens)
    /\ x_pc' = "chunk"
    /\ UNCHANGED <<x_text, x_chunk_tokens, x_chunks, fetchVars, chatVars,
                   sttVars, sumVars, cacheVars, keyVars, runVars,
                   writeVars>>

\* map_reduce.py line 316: chunk_transcript on the same text and budget
ChunkText ==
    /\ x_pc = "chunk"
    /\ x_chunks' = ChunkTexts(x_text, x_chunk_tokens)
    /\ x_pc' = "done"
    /\ UNCHANGED <<x_text, x_chunk_tokens, x_estimate, fetchVars, chatVars,
                   sttVars, sumVars, cacheVars, keyVars, runVars,
                   writeVars>>

TextNext == EstimateCost \/ ChunkText

SpecText == TextInit /\ [][TextNext]_vars

(***************************************************************************)
(* cli.py: runs of the summarize command, one after the other, each for a  *)
(* YouTube source or an existing local .txt file, with the cache directory *)
(* the first of them finds.                                                *)
(***************************************************************************)
MaxRuns == 2
\* --model values
ModelIds == {"gpt-4o-mini", "gpt-4o"}
\* what the video's captions, subtitles or audio can read at a fetch; the
\* file's text goes with its bytes, that is with FileHash
FetchedTexts == {"hello", "bye"}
RunVideo == <<"v", "1">>
FileHash == <<"f00d">>
RunLangs == {<<"auto">>, <<"en">>}
RunFormats == {Md, Json, Md \o <<",">> \o Json}
\* the order of line 249
LookupMethods == <<(<<"captions">>), (<<"subs">>), (<<"stt">>)>>
RunKeys ==
    {get_cache_key_youtube(RunVideo, l, m) : l \in RunLangs, m \in Methods}
    \cup {FileHash, get_cache_key_youtube(FileHash, <<>>, <<"file">>)}
RunPaths == {_get_cache_path(k, t) : k \in RunKeys, t \in CacheTypes}
EmptyDir == [path \in RunPaths |-> Absent]

\* create_transcript_cache, cache.py lines 192-217
create_transcript_cache(fs, video_id, text, title, channel, language, method) ==
    LET cache_key == get_cache_key_youtube(video_id, language, method)
        transcript == [text |-> text, video_id |-> video_id, title |-> title,
                       channel |-> channel, lang |-> language,
                       method |-> method, cached_at |-> "now"]
    IN  [files |-> save_to_cache(fs, cache_key, "transcript", transcript),
         key |-> cache_key]

\* create_summary_cache, cache.py lines 220-239
create_summary_cache(fs, cache_key, markdown, json_data, model) ==
    save_to_cache(fs, cache_key, "summary",
                  [markdown |-> markdown, json_data |-> json_data,
                   model |-> model, cached_at |-> "now"])

\* cache directories a run can find: empty; a transcript cached for the
\* video under the "subs" key of the language found, en, without and with
\* a Markdown-only summary; what a run on the local file leaves
DirTranscript ==
    create_transcript_cache(EmptyDir, RunVideo, "hello", "T", "C",
                            <<"en">>, <<"subs">>).files
DirSummary ==
    create_summary_cache(DirTranscript,
                         get_cache_key_youtube(RunVideo, <<"en">>, <<"subs">>),
                         "# md", "None", "gpt-4o-mini")
DirFile ==
    create_summary_cache(
        create_transcript_cache(EmptyDir, FileHash, "hello", "T", "",
                                <<>>, <<"file">>).files,
        FileHash, "# md", "None", "gpt-4o-mini")
\* entries written by a run before the one modelled were written at "t0"
Earlier(fs) ==
    [path \in DOMAIN fs |->
        IF fs[path].shape = "object"
        THEN [fs[path] EXCEPT !.members = [@ EXCEPT !["cached_at"] = "t0"]]
        ELSE fs[path]]
RunDirs == {Earlier(fs) : fs \in {EmptyDir, DirTranscript, DirSummary, DirFile}}
\* the summaries of these directories were generated from the text "hello"
OriginIn(fs) ==
    {<<k, "hello">> : k \in {key \in RunKeys :
                                 fs[_get_cache_path(key, "summary")] # Absent}}

\* lines 247-265: the cache lookups of a YouTube source from the k-th
\* method on; a miss leaves cache_key at the last key tried
RECURSIVE LookupLoop(_, _, _, _)
LookupLoop(fs, video_id, language, k) ==
    LET cache_key == get_cache_key_youtube(video_id, language, LookupMethods[k])
        cached == load_transcript(fs, cache_key)
    IN  IF cached.kind = "None" /\ k < Len(LookupMethods)
        THEN LookupLoop(fs, video_id, language, k + 1)
        ELSE [cached |-> cached, key |-> cache_key, loads |-> k]

\* the fields of the two results of fetch_youtube_transcript, youtube.py
\* lines 14-34, and the attributes summarize reads from them, cli.py lines
\* 309-314 and 324-336
ResultFields(kind) ==
    IF kind = "TranscriptResult"
    THEN {"text", "video_id", "title", "channel", "lang", "method"}
    ELSE {"audio_path", "video_id", "title", "channel", "duration_seconds"}
\* a summarize that reads only attributes the result has
MetaAttrs_of_result(kind) == ResultFields(kind)

MetaAttrs(kind) ==
    {"video_id", "title", "channel", "channel_url", "uploader_handle",
     "upload_date"}
    \cup (IF kind = "TranscriptResult" THEN {"text", "method", "lang"} ELSE {})

\* fetch_youtube_transcript, youtube.py lines 366-440, by how each strategy
\* ends: what it reaches over the network, and what it returns or raises
CaptionEnds == {"ok", "TranscriptNotAvailable", "Other"}
SubsEnds == {"ok", "TranscriptNotAvailable", "YtDlpNotFound"}
AudioEnds == {"ok", "too_long", "download_failed", "YtDlpNotFound"}
Returns(kind, method, net) ==
    [kind |-> kind, method |-> method, exc |-> "none", net |-> net]
Raises(exc, net) ==
    [kind |-> "raised", method |-> <<>>, exc |-> exc, net |-> net]
fetch_youtube_transcript(allow, c, sb, a) ==
    LET n1 == <<"transcript_index_lookup">>
        n2 == n1 \o (IF sb = "YtDlpNotFound" THEN <<>> ELSE <<"ytdlp_subtitles">>)
        n3 == n2 \o (IF a = "YtDlpNotFound" THEN <<>> ELSE <<"ytdlp_metadata">>)
    IN  IF c = "ok"
        THEN Returns("TranscriptResult", <<"captions">>, n1 \o <<"ytdlp_metadata">>)
        ELSE IF c = "Other" THEN Raises("Other", n1)
        ELSE IF sb = "ok"
        THEN Returns("TranscriptResult", <<"subs">>, n2 \o <<"ytdlp_metadata">>)
        ELSE IF ~allow THEN Raises("TranscriptNotAvailable", n2)
        ELSE IF a = "YtDlpNotFound" THEN Raises("YtDlpNotFound", n3)
        ELSE IF a = "too_long" THEN Raises("TranscriptNotAvailable", n3)
        ELSE IF a = "download_failed"
        THEN Raises("TranscriptNotAvailable", n3 \o <<"ytdlp_audio">>)
        ELSE Returns("AudioDownloadResult", <<"stt">>, n3 \o <<"ytdlp_audio">>)

\* transcribe_audio, openai_stt.py lines 82-103, on a supported audio file
\* within the size limit
SttEnds == {"ok", "TranscriptionError", "Other"}
transcribe_audio(api_key, o) ==
    IF ~api_key THEN Raises("TranscriptionError", <<>>)
    ELSE IF o = "ok" THEN Returns("text", <<>>, <<"stt_call">>)
    ELSE Raises(o, <<"stt_call">>)

\* summarize_transcript, map_reduce.py lines 294-350, by how it ends
SummarizeEnds == {"returned", "SummarizationError", "Other"}
summarize_transcript(api_key, output_format, o) ==
    IF ~api_key THEN Raises("SummarizationError", <<>>)
    ELSE IF o = "returned"
    THEN [Returns("summary", <<>>, <<"llm_call">>) EXCEPT
            !.method = [md |-> IF In(Md, Split(output_format))
                               THEN "# md" ELSE "None",
                        json |-> IF In(Json, Split(output_format))
                                 THEN "dict" ELSE "None"]]
    ELSE Raises(o, <<"llm_call">>)

\* what of the log is network activity
NetworkEvents ==
    {"transcript_index_lookup", "ytdlp_subtitles", "ytdlp_metadata",
     "ytdlp_audio", "stt_call", "llm_call"}

Exit(code, error) == [status |-> "exit", code |-> code, error |-> error]
\* an exception nothing in summarize catches
Crash(exc) == [status |-> "crash", code |-> 1, error |-> exc]

RunInit ==
    /\ FetchIdle /\ ChatIdle /\ SttIdle /\ SumIdle /\ KeyIdle /\ TextIdle
    /\ WriteIdle
    /\ files \in RunDirs
    /\ op = NoOp
    /\ saved = NoSave
    /\ r_opts \in [youtube : BOOLEAN, force : BOOLEAN,
                   no_audio_fallback : BOOLEAN, local_only : BOOLEAN,
                   fmt : RunFormats, language : RunLangs, api_key : BOOLEAN,
                   model : ModelIds]
    /\ r_pc = "lookup"
    /\ r_log = <<>>
    /\ r_transcript = "None"
    /\ r_meta = NoMeta
    /\ r_cache_key = <<>>
    /\ r_summary = NoSummaries
    /\ r_written = {}
    /\ r_end = Running
    /\ r_past = [NoPast EXCEPT !.origin = OriginIn(files),
                               !.forced = r_opts.force]

Stop(end) ==
    /\ r_pc' = "done"
    /\ r_end' = end

Times(n, event) == [i \in 1..n |-> event]

\* lines 243-265 and 358-378: the transcript cache lookup of step 1
LookupTranscript ==
    /\ r_pc = "lookup"
    /\ LET found ==
               IF r_opts.force
               THEN [cached |-> LoadedNone,
                     key |-> IF r_opts.youtube THEN <<>> ELSE FileHash,
                     loads |-> 0]
               ELSE IF r_opts.youtube
               THEN LookupLoop(files, RunVideo, r_opts.language, 1)
               ELSE [cached |-> load_transcript(files, FileHash),
                     key |-> FileHash, loads |-> 1]
       IN  /\ r_log' = r_log \o Times(found.loads, "load_transcript")
           /\ r_cache_key' = found.key
           /\ IF found.cached.kind = "raised"
              THEN /\ Stop(Crash(found.cached.exc))
                   /\ UNCHANGED <<r_transcript, r_meta>>
              ELSE IF found.cached.kind = "record"
              THEN /\ r_transcript' = found.cached.record.text
                   /\ r_meta' = [title |-> found.cached.record.title,
                                 lang |-> found.cached.record.lang,
                                 method |-> IF r_opts.youtube
                                            THEN found.cached.record.method
                                            ELSE <<"file">>]
                   /\ r_pc' = "summarize"
                   /\ UNCHANGED r_end
              ELSE /\ r_pc' = "fetch"
                   /\ UNCHANGED <<r_transcript, r_meta, r_end>>
    /\ UNCHANGED <<files, op, saved, r_opts, r_summary, r_written, r_past>>
    /\ UNCHANGED <<fetchVars, chatVars, sttVars, sumVars, keyVars, textVars, writeVars>>

\* lines 307-347: the meta dictionary is built from attributes of the result,
\* then the transcript is cached under the key of what was found
CacheFetched(kind, text, language, method, log) ==
    IF MetaAttrs(kind) \subseteq ResultFields(kind)
    THEN LET made == create_transcript_cache(files, RunVideo, text, "T", "C",
                                             language, method)
         IN  /\ files' = made.files
             /\ r_cache_key' = made.key
             /\ r_transcript' = text
             /\ r_meta' = [title |-> "T", lang |-> language, method |-> method]
             /\ r_log' = log \o <<"save_transcript">>
             /\ r_pc' = "summarize"
             /\ UNCHANGED <<r_end, r_past>>
    ELSE /\ Stop(Crash("AttributeError"))
         /\ r_transcript' = text
         /\ r_log' = log
         /\ UNCHANGED <<files, r_cache_key, r_meta, r_past>>

\* lines 267-356: a YouTube source whose transcript was not in the cache
FetchTranscript ==
    /\ r_pc = "fetch"
    /\ r_opts.youtube
    /\ \E c \in CaptionEnds, sb \in SubsEnds, a \in AudioEnds :
         LET result == fetch_youtube_transcript(~r_opts.no_audio_fallback,
                                                c, sb, a)
             fetched == r_log \o <<"fetch_youtube_transcript">> \o result.net
         IN  IF result.kind = "raised"
             THEN /\ Stop(IF result.exc = "Other"
                          THEN Crash("Other") ELSE Exit(1, result.exc))
                  /\ r_log' = fetched
                  /\ UNCHANGED <<files, r_cache_key, r_transcript, r_meta, r_past>>
             ELSE IF result.kind = "TranscriptResult"
             THEN \E text \in FetchedTexts :
                    CacheFetched(result.kind, text, <<"en">>, result.method,
                                 fetched)
             ELSE \E continue \in BOOLEAN :
                  IF ~continue
                  THEN /\ Stop(Exit(0, "declined"))
                       /\ r_log' = fetched
                       /\ UNCHANGED <<files, r_cache_key, r_transcript, r_meta,
                                      r_past>>
                  ELSE \E o \in SttEnds :
                       LET heard == transcribe_audio(r_opts.api_key, o)
                       IN  IF heard.kind = "raised"
                           THEN /\ Stop(IF heard.exc = "Other"
                                        THEN Crash("Other")
                                        ELSE Exit(1, IF r_opts.api_key
                                                     THEN "TranscriptionError"
                                                     ELSE "configuration"))
                                /\ r_log' = fetched \o heard.net
                                /\ UNCHANGED <<files, r_cache_key, r_transcript,
                                               r_meta, r_past>>
                           ELSE \E text \in FetchedTexts :
                                  CacheFetched(result.kind, text, r_opts.language,
                                               <<"stt">>, fetched \o heard.net)
    /\ UNCHANGED <<op, saved, r_opts, r_summary, r_written>>
    /\ UNCHANGED <<fetchVars, chatVars, sttVars, sumVars, keyVars, textVars, writeVars>>

\* lines 380-399: a local file whose transcript was not in the cache
LoadFile ==
    /\ r_pc = "fetch"
    /\ ~r_opts.youtube
    /\ files' = create_transcript_cache(files, r_cache_key, "hello", "T", "",
                                        <<>>, <<"file">>).files
    /\ r_transcript' = "hello"
    /\ r_meta' = [title |-> "T", lang |-> <<>>, method |-> <<"file">>]
    /\ r_log' = r_log \o <<"load_local_transcript", "save_transcript">>
    /\ r_pc' = "summarize"
    /\ UNCHANGED <<op, saved, r_opts, r_cache_key, r_summary, r_written, r_end,
                   r_past>>
    /\ UNCHANGED <<fetchVars, chatVars, sttVars, sumVars, keyVars, textVars, writeVars>>

\* lines 408-474: step 2
Summarize ==
    /\ r_pc = "summarize"
    /\ \E continue \in BOOLEAN, o \in SummarizeEnds :
         LET looked == ~r_opts.force /\ r_cache_key # <<>>
             cached_summary ==
                 IF looked
                 THEN load_summary(files, r_cache_key, r_opts.fmt)
                 ELSE LoadedNone
             log == r_log \o (IF looked THEN <<"load_summary">> ELSE <<>>)
             made == summarize_transcript(r_opts.api_key, r_opts.fmt, o)
         IN  IF r_opts.local_only
             THEN /\ r_pc' = "write"
                  /\ UNCHANGED <<files, r_log, r_summary, r_end, r_past>>
             ELSE IF cached_summary.kind = "raised"
             THEN /\ Stop(Crash(cached_summary.exc))
                  /\ r_log' = log
                  /\ UNCHANGED <<files, r_summary, r_past>>
             ELSE IF cached_summary.kind = "record"
             THEN /\ r_summary' = [md |-> cached_summary.record.markdown,
                                   json |-> cached_summary.record.json_data]
                  /\ r_log' = log
                  /\ r_pc' = "write"
                  /\ UNCHANGED <<files, r_end, r_past>>
             ELSE IF ~continue
             THEN /\ Stop(Exit(0, "declined"))
                  /\ r_log' = log
                  /\ UNCHANGED <<files, r_summary, r_past>>
             ELSE IF made.kind = "raised"
             THEN /\ Stop(IF made.exc = "Other"
                          THEN Crash("Other")
                          ELSE Exit(1, IF r_opts.api_key
                                       THEN "SummarizationError"
                                       ELSE "configuration"))
                  /\ r_log' = log \o made.net
                  /\ UNCHANGED <<files, r_summary, r_past>>
             ELSE /\ r_summary' = made.method
                  /\ IF r_cache_key # <<>>
                     THEN /\ files' = create_summary_cache(
                                          files, r_cache_key, made.method.md,
                                          made.method.json, r_opts.model)
                          /\ r_log' = log \o made.net \o <<"save_summary">>
                          /\ r_past' =
                               [r_past EXCEPT
                                  !.stored = @ \cup
                                      {<<r_cache_key, f>> :
                                          f \in {g \in {Md, Json} :
                                                    In(g, Split(r_opts.fmt))}},
                                  !.origin =
                                      {p \in @ : p[1] # r_cache_key}
                                      \cup {<<r_cache_key, r_transcript>>}]
                     ELSE /\ r_log' = log \o made.net
                          /\ UNCHANGED <<files, r_past>>
                  /\ r_pc' = "write"
                  /\ UNCHANGED r_end
    /\ UNCHANGED <<op, saved, r_opts, r_transcript, r_meta, r_cache_key,
                   r_written>>
    /\ UNCHANGED <<fetchVars, chatVars, sttVars, sumVars, keyVars, textVars, writeVars>>

\* _write_outputs, lines 134-158, and the end of the command, lines 476-479
_write_outputs ==
    /\ r_pc = "write"
    /\ r_written' = {"meta.json", "transcript.txt"}
                    \cup (IF ~Falsy(r_summary.md) THEN {"summary.md"} ELSE {})
                    \cup (IF ~Falsy(r_summary.json) THEN {"summary.json"} ELSE {})
    /\ Stop(Exit(0, "none"))
    /\ UNCHANGED <<files, op, saved, r_opts, r_log, r_transcript, r_meta,
                   r_cache_key, r_summary, r_past>>
    /\ UNCHANGED <<fetchVars, chatVars, sttVars, sumVars, keyVars, textVars, writeVars>>

\* cli.py cache_list, lines 483-506: `cache list` after the run
cache_list ==
    /\ r_pc = "done"
    /\ op = NoOp
    /\ op' = [NoOp EXCEPT !.name = "list_cached", !.ret = list_cached(files)]
    /\ UNCHANGED <<files, saved, runVars>>
    /\ UNCHANGED <<fetchVars, chatVars, sttVars, sumVars, keyVars, textVars, writeVars>>

\* the command is run again, later: what the cache holds is older now
summarize_again ==
    /\ r_pc = "done"
    /\ r_past.runs + 1 < MaxRuns
    /\ r_opts' \in [youtube : BOOLEAN, force : BOOLEAN,
                    no_audio_fallback : BOOLEAN, local_only : BOOLEAN,
                    fmt : RunFormats, language : RunLangs, api_key : BOOLEAN,
                    model : ModelIds]
    /\ files' = Earlier(files)
    /\ op' = NoOp
    /\ r_pc' = "lookup"
    /\ r_log' = <<>>
    /\ r_transcript' = "None"
    /\ r_meta' = NoMeta
    /\ r_cache_key' = <<>>
    /\ r_summary' = NoSummaries
    /\ r_written' = {}
    /\ r_end' = Running
    /\ r_past' =
         [r_past EXCEPT
            !.runs = @ + 1,
            !.forced = @ \/ r_opts'.force,
            !.acquired =
                IF \E i \in 1..Len(r_log) : r_log[i] = "save_transcript"
                THEN @ \cup {<<r_opts.youtube, r_opts.language>>}
                ELSE @]
    /\ UNCHANGED saved
    /\ UNCHANGED <<fetchVars, chatVars, sttVars, sumVars, keyVars, textVars, writeVars>>

RunNext ==
    \/ cache_list
    \/ summarize_again
    \/ LookupTranscript
    \/ FetchTranscript
    \/ LoadFile
    \/ Summarize
    \/ _write_outputs

SpecRun == RunInit /\ [][RunNext]_vars

(***************************************************************************)
(* Properties of the acquisition chain (SpecFetch).                        *)
(***************************************************************************)
Range(s) == {s[i] : i \in 1..Len(s)}
IsPrefix(s, t) == Len(s) <= Len(t) /\ \A i \in 1..Len(s) : s[i] = t[i]
StrategyOrder == <<"captions", "subs", "audio">>
StepNames == [i \in 1..Len(steps) |-> steps[i].step]
StrategyEvents == SelectSeq(events, LAMBDA e : e \in Range(StrategyOrder))
\* what the request invoked after it entered the strategy named s
EventsAfter(s) ==
    LET k == CHOOSE i \in 1..Len(events) : events[i] = s
    IN  SubSeq(events, k + 1, Len(events))

\* C1: within one request the strategies are attempted in the order caption
\* lookup, subtitle download, audio download, each at most once; every
\* strategy before the last attempted one failed; and a returned
\* TranscriptResult is tagged with the strategy that produced its text.
C1_ChainOrderAndTag ==
    /\ IsPrefix(StepNames, StrategyOrder)
    /\ StrategyEvents = StepNames
    /\ \A i \in 1..(Len(steps) - 1) : steps[i].exc # "none"
    /\ fresult.kind = "TranscriptResult" =>
          /\ Len(steps) \in {1, 2}
          /\ steps[Len(steps)].exc = "none"
          /\ fresult.method = (IF Len(steps) = 1 THEN "captions" ELSE "subs")

C1_Witness_SubsResult ==
    /\ fresult.kind = "TranscriptResult"
    /\ fresult.method = "subs"
    /\ steps[1].exc = "TranscriptNotAvailable"

\* C2: with yt-dlp missing and the caption lookup failed, the request ends
\* with YtDlpNotFound, whatever allow_audio_fallback is.
C2_ToolMissingEndsWithYtDlpNotFound ==
    (/\ fpc = "done"
     /\ ~ytdlp_installed
     /\ Len(steps) >= 1
     /\ steps[1].exc \in CaptionsCaught)
    => fresult = Raised("YtDlpNotFound")

C4_NoDownloadOfTooLongVideo ==
    "audio_download" \in Range(events) => ~TooLong(video_duration, max_minutes)

\* C5: every failure inside the caption lookup makes the chain advance to
\* the subtitle download; none leaves fetch_youtube_transcript.
C5_CaptionFailureAdvances ==
    (Len(steps) >= 1 /\ steps[1].exc # "none")
    => ~(fpc = "done" /\ Len(steps) = 1)

\* the caption lookup has listed the tracks and made its selection
Selected == Len(steps) >= 1 /\ "translate_raised" \notin Range(events)
Fetches == SelectSeq(events, LAMBDA e : e = "transcript.fetch")

C29_RequestedLanguageOnly ==
    Len(steps) >= 1 /\ lang # "auto" =>
        /\ steps[1].exc = "none" => chosen.found_lang = lang
        /\ ExactMatches(lang, tracks) = {} /\ Translatable(lang, tracks) = {} =>
               steps[1].exc = "TranscriptNotAvailable"

(***************************************************************************)
(* Properties of _parse_vtt (SpecVtt).                                     *)
(***************************************************************************)
\* str holds an opening character, then at least inner characters other
\* than the closing one, then the closing one
HasSpan(str, open, close, inner) ==
    \E i, j \in 1..Len(str) :
        /\ str[i] = open /\ str[j] = close /\ j > i + inner
        /\ \A k \in (i + 1)..(j - 1) : str[k] # close

\* C21: the text _parse_vtt returns holds no header, cue identifier or
\* timestamp line, no inline tag, no bracketed or parenthesised annotation,
\* no two adjacent emitted lines are identical, and the text is the emitted
\* lines joined by single spaces.
C21_OnlyCleanPayloadText ==
    v_pc = "done" =>
        /\ \A i \in 1..Len(v_text) : v_text[i] \in PayloadChars \cup {" "}
        /\ ~HasSpan(v_text, "<", ">", 1)
        /\ ~HasSpan(v_text, "[", "]", 0)
        /\ ~HasSpan(v_text, "(", ")", 0)
        /\ \A i \in 1..(Len(v_lines) - 1) : v_lines[i] # v_lines[i + 1]
        /\ v_text = join(v_lines)

(***************************************************************************)
(* Properties of the retry loops (SpecRetry).                              *)
(***************************************************************************)
AllProviderErrors(o) == \A i \in 1..Len(o) : IsOpenAIError(o[i])
\* the shape of a request's call history: at most `limit` calls, every call
\* but the last an OpenAIError; it ended by returning exactly when the last
\* call returned, and by raising `err` exactly when `limit` calls failed
BoundedRetry(o, status, exc, limit, err) ==
    /\ Len(o) <= limit
    /\ \A i \in 1..(Len(o) - 1) : IsOpenAIError(o[i])
    /\ status = "returned" <=> (Len(o) >= 1 /\ o[Len(o)] = "ok")
    /\ status = "raised" <=> (Len(o) = limit /\ AllProviderErrors(o))
    /\ status = "raised" => exc = err
    /\ status = "retrying" => (Len(o) \in 1..(limit - 1) /\ AllProviderErrors(o))

\* C6: a logical chat or speech-to-text request makes at most 3 provider
\* calls; a call that returns ends the request at once; a failed call is
\* followed by another only while fewer than 3 were made; the 3rd failure in
\* a row raises SummarizationError / TranscriptionError and ends the request.
C6_AtMostThreeCalls ==
    /\ BoundedRetry(c_outcomes, c_status, c_exc, 3, "SummarizationError")
    /\ BoundedRetry(t_outcomes, t_status, t_exc, 3, "TranscriptionError")

C6_Witness_BothExhausted ==
    /\ c_outcomes = <<"OpenAIError", "OpenAIError", "OpenAIError">>
    /\ c_status = "raised" /\ c_exc = "SummarizationError"
    /\ t_outcomes = <<"OpenAIError", "OpenAIError", "OpenAIError">>
    /\ t_status = "raised" /\ t_exc = "TranscriptionError"

(***************************************************************************)
(* Properties of the cache operations (SpecCache).                         *)
(***************************************************************************)
\* the representations a format selector requests, and where a summary
\* record keeps each
Requested(fmt) == {rep \in {Md, Json} : In(rep, Split(fmt))}
Holder(rep) == IF rep = Md THEN "markdown" ELSE "json_data"
\* the file is a whole record with the given fields
HoldsRecord(doc, fields) == doc.shape = "object" /\ DOMAIN doc.members = fields
SummaryFile(k) == files[_get_cache_path(k, "summary")]
TranscriptFile(k) == files[_get_cache_path(k, "transcript")]

\* C12: load_summary returns a record only if every requested
\* representation is present and non-empty in the stored record, and the
\* record returned is the stored one; when a summary record is stored under
\* the key and some requested representation is null or empty in it,
\* load_summary returns None.
C12_LoadSummaryNeedsEveryRequested ==
    op.name = "load_summary" =>
      /\ op.ret.kind = "record" =>
           /\ HoldsRecord(SummaryFile(op.key), SummaryFields)
           /\ op.ret.record = json_loads(SummaryFile(op.key)).value
           /\ \A rep \in Requested(op.fmt) : ~Falsy(op.ret.record[Holder(rep)])
      /\ ( /\ HoldsRecord(SummaryFile(op.key), SummaryFields)
           /\ \E rep \in Requested(op.fmt) :
                SummaryFile(op.key).members[Holder(rep)] \in {"null", "", "{}"} )
         => op.ret = LoadedNone

C12_Witness_MarkdownOnlyRecord ==
    /\ op.name = "load_summary"
    /\ op.fmt = Md \o <<",">> \o Json
    /\ HoldsRecord(SummaryFile(op.key), SummaryFields)
    /\ SummaryFile(op.key).members["markdown"] = "# md"
    /\ SummaryFile(op.key).members["json_data"] = "null"
    /\ op.ret = LoadedNone

\* C13: a load that follows a save under the same key, with no other write
\* in between, returns a record equal field by field to the one saved (for
\* a summary, when the record satisfies the representation request).
C13_RoundTrip ==
    /\ (op.name = "load_transcript" /\ saved.kind = "transcript"
        /\ saved.key = op.key)
       => op.ret = Loaded(saved.record)
    /\ (op.name = "load_summary" /\ saved.kind = "summary"
        /\ saved.key = op.key
        /\ \A rep \in Requested(op.fmt) : ~Falsy(saved.record[Holder(rep)]))
       => op.ret = Loaded(saved.record)

C13_Witness_SummaryWithNull ==
    /\ op.name = "load_summary"
    /\ saved.kind = "summary"
    /\ saved.key = op.key
    /\ op.fmt = Md
    /\ saved.record.json_data = "None"
    /\ op.ret.kind = "record"

\* C14: a load from a file that is not JSON, or is JSON but not a whole
\* record of the expected kind, returns None and raises nothing.
C14_MalformedEntryIsAbsent ==
    /\ (op.name = "load_transcript" /\ exists(files, _get_cache_path(op.key, "transcript"))
        /\ ~HoldsRecord(TranscriptFile(op.key), TranscriptFields))
       => op.ret = LoadedNone
    /\ (op.name = "load_summary" /\ exists(files, _get_cache_path(op.key, "summary"))
        /\ ~HoldsRecord(SummaryFile(op.key), SummaryFields))
       => op.ret = LoadedNone

\* the files of a key
FilesOf(k) == {_get_cache_path(k, t) : t \in CacheTypes}

\* C15: clear_cache(k) removes exactly the files stored under k, returns
\* how many it removed, and leaves every other file as it was.
C15_ClearKeyRemovesExactlyItsFiles ==
    (op.name = "clear_cache" /\ op.key # <<>>) =>
      /\ \A path \in CachePaths :
           files[path] = IF path \in FilesOf(op.key) THEN Absent
                         ELSE op.before[path]
      /\ op.count = Cardinality(FilesOf(op.key) \cap glob(op.before))

C15_Witness_OtherKeyKept ==
    /\ op.name = "clear_cache"
    /\ op.key # <<>>
    /\ op.count = 2
    /\ Cardinality(glob(files)) = 2

\* C16: after clear_cache() without a key, and after the `cache clear`
\* command given --all, no file is left in the cache and the count reported
\* is the number of files there were.
C16_ClearAllRemovesEverything ==
    ((op.name = "clear_cache" /\ op.key = <<>>)
     \/ (op.name = "cache_clear" /\ op.all))
    => /\ glob(files) = {}
       /\ op.count = Cardinality(glob(op.before))

(***************************************************************************)
(* Properties of two concurrent writers of one cache file (SpecWrite).     *)
(***************************************************************************)
\* C27: once both writers of the same file have finished, the file holds,
\* whole and parseable, exactly the text of the writer that finished last.
C27_LastWriterWins ==
    Len(w_finished) = 2 =>
        /\ Parseable(w_file)
        /\ w_file = w_data[w_finished[2]]

(***************************************************************************)
(* Properties of get_cache_key_youtube (SpecKey).                          *)
(***************************************************************************)
\* C17: the key is a function of the triple alone, and two triples that
\* differ in any component never yield the same key.
C17_KeyInjective ==
    k_keys # <<>> =>
      /\ k_keys[1] = get_cache_key_youtube(k_a[1], k_a[2], k_a[3])
      /\ (k_a = k_b) <=> (k_keys[1] = k_keys[2])

C17_Witness_UnderscoresInComponents ==
    /\ k_keys # <<>>
    /\ k_a = <<(<<"a", "_">>), (<<"e">>), (<<"captions">>)>>
    /\ k_b = <<(<<"a", "_">>), (<<"_", "e">>), (<<"captions">>)>>
    /\ k_keys[1] # k_keys[2]

(***************************************************************************)
(* Properties of chunking a text (SpecText).                               *)
(***************************************************************************)
\* C18: a text whose token estimate is under the budget yields exactly one
\* chunk, and that chunk is the text itself.
C18_ShortTextOneChunkUnmodified ==
    (x_pc = "done" /\ Tokens(x_text) < x_chunk_tokens) => x_chunks = <<x_text>>

\* C19: every chunk produced has a token estimate strictly below twice the
\* budget.
C19_ChunkBelowTwiceBudget ==
    x_pc = "done" =>
      \A i \in 1..Len(x_chunks) : Tokens(x_chunks[i]) < 2 * x_chunk_tokens

\* C20: the chunk count estimate_summarization_cost predicts equals the
\* number of chunks chunk_transcript produces for the same text and budget.
C20_PredictedChunkCountIsActual ==
    x_pc = "done" => x_estimate = Len(x_chunks)

(***************************************************************************)
(* Properties of one run of the summarize command (SpecRun).               *)
(***************************************************************************)
NetworkLog == SelectSeq(r_log, LAMBDA event : event \in NetworkEvents)

\* C11: when OPENAI_API_KEY is absent, a summarize run makes no network
\* activity at any point: no transcript-index lookup, no yt-dlp subtitle,
\* metadata or audio download, no speech-to-text call and no language-model
\* call.
C11_NoNetworkWithoutCredential ==
    ~r_opts.api_key /\ r_pc # "idle" => NetworkLog = <<>>

\* a cache entry of the given type that this run wrote
Fresh(cache_type) ==
    {path \in RunPaths :
        /\ path[Len(path) - 1] = cache_type
        /\ files[path].shape = "object"
        /\ files[path].members["cached_at"] = "now"}
InLog(event) == \E i \in 1..Len(r_log) : r_log[i] = event

\* C22: with --force the run reads no cache entry (neither load_transcript
\* nor load_summary); once it has acquired the transcript and ended, it has
\* written the transcript to the cache; and when it ends normally without
\* --local-only, it has called the model and written the new summary to the
\* cache entry of its cache key.
C22_ForceReadsNothingAndRewrites ==
    r_opts.force /\ r_pc # "idle" =>
        /\ ~InLog("load_transcript") /\ ~InLog("load_summary")
        /\ r_pc = "done" /\ r_transcript # "None" => Fresh("transcript") # {}
        /\ r_end = Exit(0, "none") /\ ~r_opts.local_only =>
               /\ InLog("llm_call")
               /\ _get_cache_path(r_cache_key, "summary") \in Fresh("summary")

\* C23: with --local-only the run never calls the model, never reads or
\* writes a summary cache entry, writes no summary.md and no summary.json,
\* and, once it has its transcript and has ended, it has written
\* transcript.txt and meta.json and left with exit code 0.
C23_LocalOnlyNeverSummarizes ==
    r_opts.local_only /\ r_pc # "idle" =>
        /\ ~InLog("llm_call") /\ ~InLog("load_summary") /\ ~InLog("save_summary")
        /\ r_written \cap {"summary.md", "summary.json"} = {}
        /\ r_pc = "done" /\ r_transcript # "None" =>
               /\ r_written = {"transcript.txt", "meta.json"}
               /\ r_end = Exit(0, "none")

\* C24: for a YouTube source without cached transcript, when
\* fetch_youtube_transcript returns a TranscriptResult, the ended run has
\* called the fetch exactly once and has stored the transcript under the key
\* of the video id, the result's language and its method; with --local-only
\* (nothing left that can fail) it has written the outputs and left with
\* exit code 0.
C24_FetchedTranscriptIsCachedAndWritten ==
    /\ r_opts.youtube /\ r_pc = "done"
    /\ InLog("fetch_youtube_transcript") /\ ~InLog("ytdlp_audio")
    /\ r_transcript # "None"
    => /\ Len(SelectSeq(r_log, LAMBDA e : e = "fetch_youtube_transcript")) = 1
       /\ \E method \in {<<"captions">>, <<"subs">>} :
            /\ r_cache_key = get_cache_key_youtube(RunVideo, <<"en">>, method)
            /\ _get_cache_path(r_cache_key, "transcript") \in Fresh("transcript")
       /\ r_opts.local_only =>
            /\ r_end = Exit(0, "none")
            /\ {"transcript.txt", "meta.json"} \subseteq r_written

\* the video id under which the run's source is cached
SourceId == IF r_opts.youtube THEN RunVideo ELSE FileHash
TranscriptFiles == {path \in glob(files) : path[Len(path) - 1] = "transcript"}

\* C25: list_cached returns one row per cached transcript; after a run of
\* the summarize command that ended normally with a summary (generated or
\* taken from the cache, so a summary is cached for the run's source), the
\* row of that source's transcript has has_summary set, for a YouTube source
\* and for a local file alike.
C25_ListedRowTellsSummaryOfItsSource ==
    op.name = "list_cached" =>
        /\ op.ret.kind = "record"
        /\ Cardinality(op.ret.record) = Cardinality(TranscriptFiles)
        /\ r_end = Exit(0, "none") /\ ~r_opts.local_only =>
               /\ \E row \in op.ret.record : row.video_id = SourceId
               /\ \A row \in op.ret.record :
                      row.video_id = SourceId => row.has_summary

(***************************************************************************)
(* Properties of summarize_transcript (SpecSummarize).                     *)
(***************************************************************************)
MapRequests(n) == [j \in 1..n |-> [phase |-> "map", chunk |-> j]]
ReduceRequests(fmts) ==
    (IF "md" \in fmts THEN <<[phase |-> "reduce_md", chunk |-> 0]>> ELSE <<>>)
    \o (IF "json" \in fmts THEN <<[phase |-> "reduce_json", chunk |-> 0]>>
        ELSE <<>>)

\* C7: when the map request of chunk i of n fails, summarize_transcript
\* raises a SummarizationError naming i and n, chunk i being the first chunk
\* not mapped; the requests issued are exactly the map requests of chunks
\* 1..i, so no map request of a later chunk and no reduce request follows.
C7_MapFailureNamesChunk ==
    sresult.stage = "map" =>
      /\ spc = "done"
      /\ sresult.kind = "raised"
      /\ sresult.exc = "SummarizationError"
      /\ sresult.total = Len(chunks)
      /\ sresult.ordinal = Len(chunk_summaries) + 1
      /\ sresult.ordinal \in 1..Len(chunks)
      /\ requests = MapRequests(sresult.ordinal)
      /\ md_result = "None" /\ ~json_result.present

C7_Witness_SecondOfThree ==
    /\ sresult.stage = "map"
    /\ c_status = "raised"
    /\ c_outcomes = <<"OpenAIError", "OpenAIError", "OpenAIError">>
    /\ sresult.ordinal = 2
    /\ sresult.total = 3

\* what C8 promises of a finished run
C8_Conclusion ==
    /\ sresult.kind = "returned"
    /\ requests = MapRequests(Len(chunks)) \o ReduceRequests(formats)
    /\ total_calls = Len(chunks) + Cardinality(formats)
    /\ (md_result # "None") <=> ("md" \in formats)
    /\ json_result.present <=> ("json" \in formats)

\* C8 as stated: when no model call fails, the run issues one map request
\* per chunk in chunk order, then one reduce request per requested
\* representation, and returns a non-null value for exactly the requested
\* representations.
C8_NoCallFails_AsStated ==
    (spc = "done" /\ api_key_set /\ ~any_call_failed) => C8_Conclusion

\* C8 amended: the same, when moreover no response is rejected by parsing
\* or validation (a map response in schema-constrained mode, the structured
\* reduce response).
C8_NoCallFails_NoneRejected ==
    (spc = "done" /\ api_key_set /\ ~any_call_failed /\ ~any_rejected)
    => C8_Conclusion

C8_Witness_OneChunkBoth ==
    /\ spc = "done"
    /\ sresult.kind = "returned"
    /\ ~any_call_failed
    /\ Len(chunks) = 1
    /\ formats = {"md", "json"}
    /\ total_calls = 3
    /\ md_result # "None" /\ json_result.present

\* C9: a structured reduce response that cannot be parsed or fails schema
\* validation makes summarize_transcript raise SummarizationError, with and
\* without the schema-constrained response mode.
C9_RejectedSummaryIsSummarizationError ==
    sresult.stage = "reduce_validation" => sresult.exc = "SummarizationError"

\* the cardinality bounds of FinalSummary
WithinBounds(c) ==
    /\ c.tldr = 3
    /\ c.key_points \in 8..12
    /\ c.chapters \in 3..6
    /\ c.quotes <= 5
    /\ c.action_items \in 3..7
    /\ c.tags \in 5..10

\* C10: every structured summary summarize_transcript returns satisfies
\* the FinalSummary cardinality bounds.
C10_ReturnedSummaryWithinBounds ==
    (sresult.kind = "returned" /\ json_result.present)
    => WithinBounds(json_result.counts)


\* C26: summarize_transcript ends, with a returned result or a raised error,
\* and it never makes more than max_retries provider calls for each chunk
\* and each requested representation.
C26_EndsWithinCallBudget ==
    /\ [](total_calls <= max_retries * (Len(chunks) + Cardinality(formats)))
    /\ <>(spc = "done" /\ sresult.kind # "pending")

\* a run that spent its whole budget: every request of two chunks and two
\* representations failed twice before it succeeded
C26_Witness_BudgetSpent ==
    /\ spc = "done"
    /\ Len(chunks) = 2 /\ formats = {"md", "json"}
    /\ total_calls = max_retries * 4
    /\ sresult.kind = "returned"


RECURSIVE Sum(_)
Sum(counts) == IF counts = <<>> THEN 0 ELSE Head(counts) + Sum(Tail(counts))

\* C30: the chunks of chunk_transcript, by the token counts of their units:
\* no chunk is empty; a chunk of two or more units sums to at most the
\* budget, so only a chunk of a single unit exceeds it; and the first unit
\* of every chunk after the first did not fit in the chunk before it.
C30_ChunkClosingRule ==
    spc # "start" =>
        /\ \A i \in 1..Len(chunks) :
              /\ chunks[i] # <<>>
              /\ Len(chunks[i]) >= 2 => Sum(chunks[i]) <= chunk_tokens
              /\ Sum(chunks[i]) > chunk_tokens => Len(chunks[i]) = 1
        /\ \A i \in 2..Len(chunks) :
              Sum(chunks[i - 1]) + chunks[i][1] > chunk_tokens

\* a unit over the budget kept whole in a chunk of its own, between a chunk
\* it did not fit in and a unit that did not fit after it
C30_Witness_OverBudgetUnit ==
    /\ spc # "start"
    /\ Len(chunks) = 3
    /\ chunks[2] = <<2>> /\ chunk_tokens = 1
    /\ sentences = <<1, 2, 1>>

(***************************************************************************)
(* The backoff schedule and the error policy of the retry loops            *)
(* (SpecRetry).                                                            *)
(***************************************************************************)
\* the delays of a request with call history o: the k-th delay is 2^k
\* seconds, and there is one delay per failed call that another call
\* follows: as many as calls while the loop goes on, one fewer once it ended
Backoff(o, slept, status) ==
    /\ \A k \in 1..Len(slept) : slept[k] = 2 ^ k
    /\ \A k \in 1..(Len(slept) - 1) : slept[k] < slept[k + 1]
    /\ Len(slept) <= 2
    /\ status = "retrying" => Len(slept) = Len(o)
    /\ status \in {"returned", "raised", "propagated"} => Len(slept) = Len(o) - 1
    /\ status \in {"idle", "off"} => slept = <<>>

UniformRetry(o, slept, status, exc) ==
    /\ \A i \in 1..Len(o) :
          IsOpenAIError(o[i]) /\ i < 3 => (Len(slept) >= i /\ (i < Len(o) \/ status = "retrying"))
    /\ \A i \in 1..Len(o) :
          o[i] = "Other" => (i = Len(o) /\ status = "propagated" /\ exc = "Other"
                             /\ Len(slept) = i - 1)
    /\ status = "raised" => (Len(o) = 3 /\ AllProviderErrors(o))
    /\ status = "propagated" => o[Len(o)] = "Other"

\* C32: every provider error (OpenAIError), including bad credentials and
\* malformed requests, is retried until the 3-attempt budget is used up; an
\* exception that is not a provider error propagates at its first
\* occurrence with no retry and no delay.
C32_ProviderErrorsRetriedAlike ==
    /\ UniformRetry(c_outcomes, c_sleeps, c_status, c_exc)
    /\ UniformRetry(t_outcomes, t_sleeps, t_status, t_exc)

C32_Witness_CredentialsRetriedOtherNot ==
    /\ c_outcomes = <<"AuthenticationError", "BadRequestError", "AuthenticationError">>
    /\ c_status = "raised"
    /\ t_outcomes = <<"BadRequestError", "Other">>
    /\ t_status = "propagated" /\ t_sleeps = <<2>>

(***************************************************************************)
(* Parse failures and empty input in summarize_transcript (SpecSummarize). *)
(***************************************************************************)
\* the map phase is over and did not raise
MapPhaseOver ==
    \/ spc \in {"reduce_md", "reduce_json", "return"}
    \/ spc = "done" /\ sresult.kind = "returned"
    \/ spc = "done" /\ sresult.kind = "raised"
                    /\ sresult.stage \in {"reduce_call", "reduce_validation"}

\* C33: without the schema-constrained response mode, a map response that
\* cannot be parsed never aborts the summarization: the chunk contributes an
\* empty extract, the remaining chunks are still mapped, and the list handed
\* to the reduce phase has exactly one entry per chunk, in chunk order.
C33_UnparseableMapResponseGivesEmptyExtract ==
    ~use_structured_output =>
        /\ \A response \in MapResponses :
              LET m == _map_chunk(FALSE, response)
              IN  /\ m.exc = "none"
                  /\ response = "garbage" => m.extract = "empty"
        /\ sresult.kind = "raised" /\ sresult.stage = "map"
              => (c_status \in {"raised", "propagated"} /\ ~any_rejected)
        /\ \A i \in 1..Len(chunk_summaries) :
              /\ chunk_summaries[i].chunk = i
              /\ chunk_summaries[i].extract \in {"extract", "empty"}
        /\ MapPhaseOver => Len(chunk_summaries) = Len(chunks)

C33_Witness_EmptyExtractThenNextChunk ==
    /\ ~use_structured_output
    /\ spc = "reduce_md"
    /\ Len(chunks) = 3
    /\ chunk_summaries = <<[chunk |-> 1, extract |-> "empty"],
                           [chunk |-> 2, extract |-> "extract"],
                           [chunk |-> 3, extract |-> "empty"]>>

\* C34: for an empty transcript (zero chunks) summarize_transcript issues no
\* map request and exactly one reduce request per requested representation,
\* each carrying an empty extract list; the empty input itself raises no
\* error (a run that raises does so because a reduce call failed or its
\* response was rejected).
C34_EmptyTranscriptGoesStraightToReduce ==
    (api_key_set /\ sentences = <<>> /\ spc # "start") =>
        /\ chunks = <<>>
        /\ chunk_summaries = <<>>
        /\ \A i \in 1..Len(requests) : requests[i].phase # "map"
        /\ IsPrefix(requests, ReduceRequests(formats))
        /\ (spc = "reduce_md" /\ c_status = "retrying") => requests = ReduceRequests({"md"})
        /\ sresult.kind = "returned" => requests = ReduceRequests(formats)
        /\ sresult.kind = "raised" =>
              /\ sresult.stage \in {"reduce_call", "reduce_validation"}
              /\ any_call_failed \/ any_rejected

C34_Witness_BothReducesOnNothing ==
    /\ api_key_set /\ sentences = <<>>
    /\ formats = {"md", "json"}
    /\ sresult.kind = "returned"
    /\ total_calls = 2
    /\ requests = <<[phase |-> "reduce_md", chunk |-> 0],
                    [phase |-> "reduce_json", chunk |-> 0]>>

(***************************************************************************)
(* Properties of successive runs of the summarize command (SpecRun).       *)
(***************************************************************************)
\* C35: after a run has acquired and cached a transcript for a source, a
\* later run without --force on the same source and the same requested
\* language finds that transcript in the cache and performs no acquisition
\* (no fetch_youtube_transcript call, no reload of the local file).
C35_CachedTranscriptIsReused ==
    (~r_opts.force /\ <<r_opts.youtube, r_opts.language>> \in r_past.acquired) =>
        /\ r_pc # "fetch"
        /\ ~InLog("fetch_youtube_transcript")
        /\ ~InLog("load_local_transcript")

\* C36: a representation once cached for a key stays available: if a run
\* stored representation r (markdown or structured) under a key, then after
\* any further runs without --force and without a cache clear the stored
\* record still holds r,
\* so that a run requesting r for that key without --force is served from
\* the cache.
C36_StoredRepresentationStays ==
    ~r_past.forced =>
        \A p \in r_past.stored : load_summary(files, p[1], p[2]).kind = "record"

\* the run took its summary from the cache: load_summary returned a record
\* and no model request was made
ServedFromCache ==
    /\ InLog("load_summary")
    /\ ~InLog("llm_call")
    /\ r_summary # NoSummaries

\* C37: a summary served from the cache by the summarize command was
\* generated by the model identifier requested in the current invocation; a
\* summary stored under a different model is not returned as a hit.
C37_CacheHitHasRequestedModel ==
    ServedFromCache =>
        files[_get_cache_path(r_cache_key, "summary")].members["model"]
            = r_opts.model

IsOrderedPartition(chunked, units) ==
    \E cuts \in [0..Len(chunked) -> 0..Len(units)] :
        /\ cuts[0] = 0
        /\ cuts[Len(chunked)] = Len(units)
        /\ \A i \in 1..Len(chunked) :
              /\ cuts[i - 1] < cuts[i]
              /\ chunked[i] = join(SubSeq(units, cuts[i - 1] + 1, cuts[i]))

\* C39: chunk_transcript loses and reorders nothing: every sentence unit of
\* the input is in exactly one chunk, the units keep their input order
\* within and across chunks, no chunk is empty, and an input with no
\* non-blank unit yields zero chunks.
C39_ChunksPartitionTheUnits ==
    x_pc = "done" =>
        /\ IsOrderedPartition(x_chunks, SentenceUnits(x_text))
        /\ \A i \in 1..Len(x_chunks) : x_chunks[i] # <<>>
        /\ join(x_chunks) = join(SentenceUnits(x_text))
        /\ SentenceUnits(x_text) = <<>> => x_chunks = <<>>

C39_Witness_ThreeUnitsTwoChunks ==
    /\ x_pc = "done"
    /\ SentenceUnits(x_text) = <<(<<"a", ".">>), (<<"a", ".">>), (<<"a", ".">>)>>
    /\ x_chunks = <<(<<"a", ".", " ", "a", ".">>), (<<"a", ".">>)>>

(***************************************************************************)
(* The text of a fetched transcript (SpecFetch).                           *)
(***************************************************************************)
\* C40: a TranscriptResult returned by fetch_youtube_transcript never has
\* empty text, whichever strategy produced it: an empty result of the
\* caption step or of the subtitle step is that step's failure (the step's
\* record carries an exception) and the chain advances.
C40_ReturnedTextIsNotEmpty ==
    /\ fresult.kind = "TranscriptResult" => fresult.text # ""
    /\ \A i \in 1..Len(steps) :
          (steps[i].exc = "none" /\ steps[i].step \in {"captions", "subs"})
              => (fresult.kind = "TranscriptResult" /\ fresult.text # "")

====
